---- MODULE Spec2Model ----
(***************************************************************************)
(* Model of the NBT static connection handover example: the handover       *)
(* message kept in RAM (main.c), the Bluetooth management callback         *)
(* ble_callback and the bonding commands (bluetooth-handling.c), with the  *)
(* wireless stack, the NBT tag, the key-value store and mbedTLS as         *)
(* collaborators whose calls may succeed or fail.                          *)
(*                                                                         *)
(* Every handler is one action.  The collaborator calls a handler issues   *)
(* are recorded, in order, in the variable calls; the value it returns in  *)
(* ret; the event it was given (and the event's in/out buffer) in evt.     *)
(***************************************************************************)
EXTENDS Integers, Sequences, FiniteSets, TLC

(***************************************************************************)
(* Program constants                                                       *)
(***************************************************************************)
CONNECTION_HANDOVER_MESSAGE_MAC_OFFSET == 39

CONNECTION_HANDOVER_MESSAGE_CONFIRMATION_OFFSET == 78

CONNECTION_HANDOVER_MESSAGE_RANDOM_OFFSET == 96

\* sizeof(wiced_bt_device_address_t)
BD_ADDR_LEN == 6

\* 0x10U: length of the confirmation and of the random value
SC_VALUE_LEN == 16

\* 0x20U: length of public_key_used.x
PUBLIC_KEY_X_LEN == 32

\* the static initialiser of CONNECTION_HANDOVER_MESSAGE
SKELETON ==
  << 0, 113, 210, 32, 78,
     97, 112, 112, 108, 105, 99, 97, 116, 105, 111, 110, 47, 118, 110, 100, 46,
     98, 108, 117, 101, 116, 111, 111, 116, 104, 46, 108, 101, 46, 111, 111, 98,
     8, 27, 255, 255, 255, 255, 255, 255, 0,
     2, 28, 0,
     4, 9, 78, 66, 84,
     3, 25, 194, 3,
     17, 16, 0, 0, 0, 0, 0, 0, 0, 0, 0, 0, 0, 0, 0, 0, 0, 0,
     17, 34, 255, 255, 255, 255, 255, 255, 255, 255, 255, 255, 255, 255, 255, 255, 255, 255,
     17, 35, 255, 255, 255, 255, 255, 255, 255, 255, 255, 255, 255, 255, 255, 255, 255, 255,
     2, 1, 6 >>

\* sizeof(CONNECTION_HANDOVER_MESSAGE)
MESSAGE_LEN == Len(SKELETON)

(***************************************************************************)
(* Byte buffers.  Offsets are the C offsets (0-based); sequences are       *)
(* 1-based, so the byte at offset o is buf[o + 1].                         *)
(***************************************************************************)
Rep(n, b) == [i \in 1..n |-> b]

\* buf[offset .. offset + len - 1]
Field(buf, offset, len) == SubSeq(buf, offset + 1, offset + len)

memcpy_one_further(buf, offset, bytes) ==
  [i \in 1..Len(buf) |->
     IF offset + 1 < i /\ i <= offset + 1 + Len(bytes) THEN bytes[i - offset - 1] ELSE buf[i]]

\* memcpy(buf + offset, bytes, Len(bytes))
memcpy(buf, offset, bytes) ==
  [i \in 1..Len(buf) |->
     IF offset < i /\ i <= offset + Len(bytes) THEN bytes[i - offset] ELSE buf[i]]

(***************************************************************************)
(* Inputs: the values the environment may supply.                          *)
(***************************************************************************)
\* how many devices, public keys, randomizers, indeterminate bytes and peers
\* the inputs are drawn from
NumDevices == 3

NumPublicKeys == 2

NumRandomizers == 2

NumIndeterminate == 2

NumPeers == 2

\* cy_bt_device_address of the configuration and the fields of the die's unique id
HardwareSample(n) ==
  [cy_bt_device_address |-> << n, 160, 80, 16 + n, 32 + n, 48 + n >>,
   die_wafer |-> (250 + 7 * n) % 256, die_x |-> 20 * n, die_y |-> 255 - n]

Hardware == { HardwareSample(n) : n \in 1..NumDevices }

\* public_key_used.x of the local OOB data: 0x11 repeated, then mixed bytes
PublicKeyX ==
  { [i \in 1..PUBLIC_KEY_X_LEN |-> (17 * n + (n - 1) * i) % 256] : n \in 1..NumPublicKeys }

\* randomizer of the local OOB data: all zero, 0x22 repeated, ...
Randomizer == { Rep(SC_VALUE_LEN, (34 * (n - 1)) % 256) : n \in 1..NumRandomizers }

\* values an uninitialised byte of the stack frame may hold
IndeterminateByte == { (90 * (n - 1)) % 256 : n \in 1..NumIndeterminate }

\* addresses of peers, and of one more peer no link keys are delivered for
PeerAddresses == 1..(NumPeers + 1)

\* link keys <<bd_addr, key material>> of a peer; the all-zero blob is <<0, 0>>
LinkKeys == { << p, 11 * p >> : p \in 1..NumPeers }

\* buffers the stack hands to BTM_PAIRED_DEVICE_LINK_KEYS_REQUEST_EVT: the
\* peer's address and no key material yet
RequestBuffers == { << p, 0 >> : p \in PeerAddresses }

ZeroLinkKeys == <<0, 0>>

\* connection ids the stack hands out
NumConnections == 1

ConnectionIds == 1..NumConnections

\* values a peer writes to an attribute: up to MaxValLen bytes, the first one
\* 0 or 1 (notifications off or on), the others 0
MaxValLen == 3

WriteValues == { [i \in 1..n |-> IF i = 1 THEN b ELSE 0] : n \in 0..MaxValLen, b \in {0, 1} }

\* read requests: read_req.offset and len_requested
ReadOffsets == 0..MaxValLen

ReadLengths == {0, 1, MaxValLen}

\* values a peer writes to the subscription attribute, both bytes in use
SubscriptionValues == { << lo, hi >> : lo, hi \in {0, 1} }

(***************************************************************************)
(* State                                                                   *)
(***************************************************************************)
VARIABLES
  pc,                           \* "boot", "running", "startup_failed", "asserted"
  hw,                           \* the device: configured address and unique id
  CONNECTION_HANDOVER_MESSAGE,  \* main.c: the handover message in RAM
  ndef_file,                    \* the tag: first MESSAGE_LEN bytes of its NDEF file
  bonding_info,                 \* [device_link_keys, bonded]
  cccd,                         \* RAM copy of the subscription flag
  connection_id,                \* current connection, 0 when none
  local_identity_keys,          \* RAM copy of the local identity keys
  app_hids_report_client_char_config, \* the live subscription attribute (byte 0)
  data_storage,                 \* the key-value store: key -> blob, <<>> when absent
  stack,                        \* what the wireless stack holds, and the report it owes
  evt,                          \* the event or command handled last, with its buffer
  ret,                          \* what the handler returned
  calls,                        \* the collaborator calls the handler issued, in order
  last_keys_update,             \* history: payload of the latest PeerKeysUpdate, <<>> if none
  paired,                       \* history: a PairingComplete was handled since the last reset
  subscriber,                   \* history: the peer bonded when cccd was last written (0: none),
                                \* and whether ble_clear_bonding_info has forgotten it since
  app_hids_report,              \* the report attribute's value (one byte)
  cur_len,                      \* attribute table: current length of the two attributes
  elapsed_periods,              \* main.c: periods counted by time_keeper
  press_start,                  \* btn_task: value of elapsed_periods at the last press
  btn_pc,                       \* btn_task: "idle", or "vTaskDelay" inside ble_gatt_send_hid_update
  button,                       \* the level of the pin CYBSP_USER_BTN
  btn_irq_sleeper,              \* main.c: the binary semaphore, 1 when given
  pressed_at,                   \* history: elapsed_periods at the last press of the button
  last_hold,                    \* history: periods the button was held, at its last release
  pulse_conn                    \* history: the connection the first notification of a pulse went to

vars ==
  << pc, hw, CONNECTION_HANDOVER_MESSAGE, ndef_file, bonding_info, cccd, connection_id,
     local_identity_keys, app_hids_report_client_char_config, data_storage, stack,
     evt, ret, calls, last_keys_update, paired, subscriber,
     app_hids_report, cur_len, elapsed_periods, press_start, btn_pc,
     button, btn_irq_sleeper, pressed_at, last_hold, pulse_conn >>

\* the button, its interrupt and what happened to it
irq_vars == << button, btn_irq_sleeper, pressed_at, last_hold >>

\* the variables of the button task
button_vars == << elapsed_periods, press_start, btn_pc, irq_vars, pulse_conn >>

CYBSP_BTN_PRESSED == "CYBSP_BTN_PRESSED"

CYBSP_BTN_OFF == "CYBSP_BTN_OFF"

IFX_SUCCESS == "IFX_SUCCESS"

IFX_ERROR == "IFX_ERROR"

WICED_BT_SUCCESS == "WICED_BT_SUCCESS"

WICED_BT_ERROR == "WICED_BT_ERROR"

\* one collaborator call: its name, its scalar arguments, the bytes it carries
Call(op, arg, data, ok) == [op |-> op, key |-> "", arg |-> arg, data |-> data, ok |-> ok]

\* a call to the key-value store: the key it names and the blob it carries
KvCall(op, key, data, ok) == [op |-> op, key |-> key, arg |-> <<>>, data |-> data, ok |-> ok]

Event(type, arg, out) == [type |-> type, arg |-> arg, out |-> out]

\* the calls of the log named op
CallsOf(log, op) == { i \in DOMAIN log : log[i].op = op }

(***************************************************************************)
(* The tag collaborator and the three field writers of main.c              *)
(***************************************************************************)
\* nbt_write_file(&nbt, NBT_FILEID_NDEF, offset, data, length): the file after
\* the call; a failed write leaves the file as it was
nbt_write_file(file, offset, data, ok) ==
  IF ok THEN memcpy(file, offset, data) ELSE file

nbt_write_call(offset, data, ok) ==
  Call("nbt_write_file", <<offset, Len(data)>>, data, ok)

ifx_error_check_ignored(status) == FALSE

ifx_error_check(status) == status # IFX_SUCCESS

\* each writer yields the message, the file, the status and the call it made
callback_mac_address_changed_unswapped(message, file, mac, ok) ==
  LET msg2 == memcpy(message, CONNECTION_HANDOVER_MESSAGE_MAC_OFFSET, mac)
      pushed == Field(msg2, CONNECTION_HANDOVER_MESSAGE_MAC_OFFSET, BD_ADDR_LEN)
  IN [message |-> msg2,
      file |-> nbt_write_file(file, CONNECTION_HANDOVER_MESSAGE_MAC_OFFSET, pushed, ok),
      status |-> IF ok THEN IFX_SUCCESS ELSE IFX_ERROR,
      call |-> nbt_write_call(CONNECTION_HANDOVER_MESSAGE_MAC_OFFSET, pushed, ok)]

callback_mac_address_changed(message, file, mac, ok) ==
  LET msg2 == [i \in 1..Len(message) |->
                 IF /\ CONNECTION_HANDOVER_MESSAGE_MAC_OFFSET < i
                    /\ i <= CONNECTION_HANDOVER_MESSAGE_MAC_OFFSET + BD_ADDR_LEN
                 THEN mac[BD_ADDR_LEN - (i - CONNECTION_HANDOVER_MESSAGE_MAC_OFFSET) + 1]
                 ELSE message[i]]
      pushed == Field(msg2, CONNECTION_HANDOVER_MESSAGE_MAC_OFFSET, BD_ADDR_LEN)
  IN [message |-> msg2,
      file |-> nbt_write_file(file, CONNECTION_HANDOVER_MESSAGE_MAC_OFFSET, pushed, ok),
      status |-> IF ok THEN IFX_SUCCESS ELSE IFX_ERROR,
      call |-> nbt_write_call(CONNECTION_HANDOVER_MESSAGE_MAC_OFFSET, pushed, ok)]

callback_sc_confirmation_value_changed_push_first(message, file, confirmation, ok) ==
  LET pushed == Field(message, CONNECTION_HANDOVER_MESSAGE_CONFIRMATION_OFFSET, SC_VALUE_LEN)
      msg2 == memcpy(message, CONNECTION_HANDOVER_MESSAGE_CONFIRMATION_OFFSET,
                     SubSeq(confirmation, 1, SC_VALUE_LEN))
  IN [message |-> msg2,
      file |-> nbt_write_file(file, CONNECTION_HANDOVER_MESSAGE_CONFIRMATION_OFFSET, pushed, ok),
      status |-> IF ok THEN IFX_SUCCESS ELSE IFX_ERROR,
      call |-> nbt_write_call(CONNECTION_HANDOVER_MESSAGE_CONFIRMATION_OFFSET, pushed, ok)]

callback_sc_confirmation_value_changed(message, file, confirmation, ok) ==
  LET msg2 == memcpy(message, CONNECTION_HANDOVER_MESSAGE_CONFIRMATION_OFFSET,
                     SubSeq(confirmation, 1, SC_VALUE_LEN))
      pushed == Field(msg2, CONNECTION_HANDOVER_MESSAGE_CONFIRMATION_OFFSET, SC_VALUE_LEN)
  IN [message |-> msg2,
      file |-> nbt_write_file(file, CONNECTION_HANDOVER_MESSAGE_CONFIRMATION_OFFSET, pushed, ok),
      status |-> IF ok THEN IFX_SUCCESS ELSE IFX_ERROR,
      call |-> nbt_write_call(CONNECTION_HANDOVER_MESSAGE_CONFIRMATION_OFFSET, pushed, ok)]

callback_sc_random_value_changed_as_confirmation(message, file, random, ok) ==
  LET msg2 == memcpy(message, CONNECTION_HANDOVER_MESSAGE_RANDOM_OFFSET,
                     SubSeq(random, 1, SC_VALUE_LEN))
      pushed == Field(msg2, CONNECTION_HANDOVER_MESSAGE_RANDOM_OFFSET, SC_VALUE_LEN)
  IN [message |-> msg2,
      file |-> nbt_write_file(file, CONNECTION_HANDOVER_MESSAGE_CONFIRMATION_OFFSET, pushed, ok),
      status |-> IF ok THEN IFX_SUCCESS ELSE IFX_ERROR,
      call |-> nbt_write_call(CONNECTION_HANDOVER_MESSAGE_CONFIRMATION_OFFSET, pushed, ok)]

callback_sc_random_value_changed(message, file, random, ok) ==
  LET msg2 == memcpy(message, CONNECTION_HANDOVER_MESSAGE_RANDOM_OFFSET,
                     SubSeq(random, 1, SC_VALUE_LEN))
      pushed == Field(msg2, CONNECTION_HANDOVER_MESSAGE_RANDOM_OFFSET, SC_VALUE_LEN)
  IN [message |-> msg2,
      file |-> nbt_write_file(file, CONNECTION_HANDOVER_MESSAGE_RANDOM_OFFSET, pushed, ok),
      status |-> IF ok THEN IFX_SUCCESS ELSE IFX_ERROR,
      call |-> nbt_write_call(CONNECTION_HANDOVER_MESSAGE_RANDOM_OFFSET, pushed, ok)]

(***************************************************************************)
(* The key-value store collaborator (mtb_kvstore) and the blobs kept in it *)
(***************************************************************************)
NotFound == <<>>

EmptyStore == [bonding |-> NotFound, cccd |-> NotFound, identity_keys |-> NotFound]

\* contents a previous session may have left in the store
StoredBefore ==
  { EmptyStore,
    [bonding |-> <<1, 11, 1>>, cccd |-> <<1, 0>>, identity_keys |-> <<5>>] }

\* (uint8_t *) (&bonding_info), sizeof(bonding_info)
BondingBlob(info) == info.device_link_keys \o << IF info.bonded THEN 1 ELSE 0 >>

BondingOfBlob_keys_lost(blob) == [device_link_keys |-> ZeroLinkKeys, bonded |-> blob[3] # 0]

BondingOfBlob(blob) == [device_link_keys |-> SubSeq(blob, 1, 2), bonded |-> blob[3] # 0]

\* (uint8_t *) (&cccd), sizeof(cccd): little endian
CccdBlob(value) == << value % 256, (value \div 256) % 256 >>

CccdOfBlob(blob) == blob[1] + 256 * blob[2]

\* mtb_kvstore_write: the store after the call
mtb_kvstore_write(store, key, blob, ok) ==
  IF ok THEN [store EXCEPT ![key] = blob] ELSE store

\* mtb_kvstore_read succeeds when the key is there and the device can be read
mtb_kvstore_read_ok(store, key, ok) == ok /\ store[key] # NotFound

(***************************************************************************)
(* Initial state: the static initialisers, before the scheduler starts     *)
(***************************************************************************)
Init ==
  /\ pc = "boot"
  /\ hw \in Hardware
  /\ CONNECTION_HANDOVER_MESSAGE = SKELETON
  /\ ndef_file = Rep(MESSAGE_LEN, 0)
  /\ bonding_info = [device_link_keys |-> ZeroLinkKeys, bonded |-> FALSE]
  /\ cccd = 0
  /\ connection_id = 0
  /\ local_identity_keys = <<0>>
  /\ app_hids_report_client_char_config = <<0, 0>>
  /\ data_storage \in StoredBefore
  /\ stack = [state |-> "off", bdaddr |-> <<>>, advert |-> FALSE, oob_pending |-> FALSE,
              resolution_db |-> {}, gatt_registered |-> FALSE,
              link |-> FALSE, advert_report |-> "none"]
  /\ evt = Event("none", <<>>, <<>>)
  /\ ret = "none"
  /\ calls = <<>>
  /\ last_keys_update = <<>>
  /\ paired = FALSE
  /\ subscriber = [peer |-> 0, forgotten |-> FALSE]
  /\ app_hids_report = <<0>>
  /\ cur_len = [cccd |-> 2, report |-> 1]
  /\ elapsed_periods = 0
  /\ press_start = 0
  /\ btn_pc = "idle"
  /\ button = CYBSP_BTN_OFF
  /\ btn_irq_sleeper = 0
  /\ pressed_at = 0
  /\ last_hold = 0
  /\ pulse_conn = 0

(***************************************************************************)
(* main.c: startup_task and nbt_configure_ble_connection_handover          *)
(***************************************************************************)
StartupSteps ==
  { "none", "ifx_protocol_activate", "nbt_configure", "nbt_select_nbt_application",
    "nbt_write_file", "xTimerStart", "data_storage_initialize", "wiced_bt_stack_init" }

\* the status, the file and the calls of nbt_configure_ble_connection_handover
\* when step fail (if any) fails
nbt_configure_ble_connection_handover(message, file, fail) ==
  LET c1 == << Call("nbt_configure", <<>>, <<>>, fail # "nbt_configure") >>
      c2 == Append(c1, Call("nbt_select_nbt_application", <<>>, <<>>,
                            fail # "nbt_select_nbt_application"))
      ok == fail # "nbt_write_file"
  IN IF fail = "nbt_configure"
     THEN [status |-> IFX_ERROR, file |-> file, calls |-> c1]
     ELSE IF fail = "nbt_select_nbt_application"
     \* returns status, which still holds the result of nbt_configure
     THEN [status |-> IFX_SUCCESS, file |-> file, calls |-> c2]
     ELSE [status |-> IF ok THEN IFX_SUCCESS ELSE IFX_ERROR,
           file |-> nbt_write_file(file, 0, message, ok),
           calls |-> Append(c2, nbt_write_call(0, message, ok))]

Cleanup ==
  << Call("cyhal_i2c_free", <<>>, <<>>, TRUE),
     Call("ifx_protocol_destroy", <<>>, <<>>, TRUE),
     Call("nbt_destroy", <<>>, <<>>, TRUE) >>

startup_task(fail) ==
  /\ pc = "boot"
  /\ LET c0 == << Call("ifx_protocol_activate", <<>>, <<>>, fail # "ifx_protocol_activate") >>
         cfg == nbt_configure_ble_connection_handover(CONNECTION_HANDOVER_MESSAGE, ndef_file, fail)
         c1 == c0 \o cfg.calls
         c2 == Append(c1, Call("xTimerStart", <<>>, <<>>, fail # "xTimerStart"))
         c3 == Append(c2, Call("data_storage_initialize", <<>>, <<>>,
                               fail # "data_storage_initialize"))
         c4 == Append(c3, Call("wiced_bt_stack_init", <<>>, <<>>, fail # "wiced_bt_stack_init"))
         done == IF fail = "ifx_protocol_activate" THEN [file |-> ndef_file, calls |-> c0, ok |-> FALSE]
                 ELSE IF ifx_error_check(cfg.status) THEN [file |-> cfg.file, calls |-> c1, ok |-> FALSE]
                 ELSE IF fail = "xTimerStart" THEN [file |-> cfg.file, calls |-> c2, ok |-> FALSE]
                 ELSE IF fail = "data_storage_initialize" THEN [file |-> cfg.file, calls |-> c3, ok |-> FALSE]
                 ELSE IF fail = "wiced_bt_stack_init" THEN [file |-> cfg.file, calls |-> c4, ok |-> FALSE]
                 ELSE [file |-> cfg.file, calls |-> c4, ok |-> TRUE]
     IN /\ ndef_file' = done.file
        /\ calls' = IF done.ok THEN done.calls ELSE done.calls \o Cleanup
        /\ pc' = IF done.ok THEN "running" ELSE "startup_failed"
        /\ stack' = IF done.ok THEN [stack EXCEPT !.state = "starting"] ELSE stack
  /\ evt' = Event("startup_task", <<>>, <<>>)
  /\ ret' = "none"
  /\ UNCHANGED << hw, CONNECTION_HANDOVER_MESSAGE, bonding_info, cccd, connection_id,
                  local_identity_keys, app_hids_report_client_char_config, data_storage,
                  last_keys_update, paired, subscriber, app_hids_report, cur_len, button_vars >>

(***************************************************************************)
(* bluetooth-handling.c: ble_callback, BTM_ENABLED_EVT                     *)
(***************************************************************************)
EnabledSteps ==
  { "none", "wiced_bt_set_local_bdaddr", "nbt_write_file",
    "wiced_bt_ble_set_raw_advertisement_data", "wiced_bt_gatt_register",
    "wiced_bt_gatt_db_init", "wiced_bt_smp_create_local_sc_oob_data",
    "wiced_bt_start_advertisements" }

\* cy_bt_device_address with bytes 3, 4, 5 taken from the unique id
mac_address(device) ==
  [i \in 1..BD_ADDR_LEN |->
     IF i = 4 THEN device.die_wafer % 256
     ELSE IF i = 5 THEN device.die_x % 256
     ELSE IF i = 6 THEN device.die_y % 256
     ELSE device.cy_bt_device_address[i]]

\* a handler's outcome: the state it leaves, the value it returns, its calls
Outcome(st, value, log) == [st |-> st, ret |-> value, calls |-> log]

\* the part of BTM_ENABLED_EVT after the address was pushed: load the bond,
\* configure advertising and the attribute server, request the OOB data
enabled_after_push(st, mac, log, fail, okRead, okCccd, assertOn) ==
  LET readOk == mtb_kvstore_read_ok(st.store, "bonding", okRead)
      loaded == IF readOk THEN BondingOfBlob(st.store.bonding) ELSE st.bonding
      cccdOk == mtb_kvstore_read_ok(st.store, "cccd", okCccd)
      s1 == IF readOk /\ loaded.bonded
            THEN [st EXCEPT !.bonding = loaded,
                            !.stack.resolution_db = @ \cup {loaded.device_link_keys},
                            !.cccd = IF cccdOk THEN CccdOfBlob(st.store.cccd) ELSE @]
            ELSE [st EXCEPT !.bonding = loaded]
      c1 == Append(log, KvCall("mtb_kvstore_read", "bonding", <<>>, readOk))
      c2 == IF readOk /\ loaded.bonded
            THEN c1 \o << Call("wiced_bt_dev_add_device_to_address_resolution_db", <<>>,
                               loaded.device_link_keys, TRUE),
                          KvCall("mtb_kvstore_read", "cccd", <<>>, cccdOk) >>
            ELSE c1
      c3 == c2 \o << Call("wiced_bt_set_pairable_mode", <<>>, <<>>, TRUE),
                     Call("wiced_bt_ble_set_raw_advertisement_data", <<>>, <<>>,
                          fail # "wiced_bt_ble_set_raw_advertisement_data") >>
      c4 == Append(c3, Call("wiced_bt_gatt_register", <<>>, <<>>, fail # "wiced_bt_gatt_register"))
      s4 == [s1 EXCEPT !.stack.gatt_registered = TRUE]
      c5 == Append(c4, Call("wiced_bt_gatt_db_init", <<>>, <<>>, fail # "wiced_bt_gatt_db_init"))
      oobOk == fail # "wiced_bt_smp_create_local_sc_oob_data"
      c6 == Append(c5, Call("wiced_bt_smp_create_local_sc_oob_data", <<>>, mac, oobOk))
      s6 == [s4 EXCEPT !.stack.oob_pending = oobOk]
      advOk == fail # "wiced_bt_start_advertisements"
      c7 == Append(c6, Call("wiced_bt_start_advertisements", <<1>>, <<>>, advOk))
      s7 == [s6 EXCEPT !.stack.advert = advOk]
  IN IF fail = "wiced_bt_ble_set_raw_advertisement_data" THEN Outcome(s1, WICED_BT_ERROR, c3)
     ELSE IF fail = "wiced_bt_gatt_register" THEN Outcome(s1, WICED_BT_ERROR, c4)
     ELSE IF fail = "wiced_bt_gatt_db_init" THEN Outcome(s4, WICED_BT_ERROR, c5)
     \* CY_ASSERT(0): halts in a debug build, is empty in a release build
     ELSE IF ~oobOk /\ assertOn THEN Outcome([s6 EXCEPT !.pc = "asserted"], "none", c6)
     ELSE Outcome(s7, IF advOk THEN WICED_BT_SUCCESS ELSE WICED_BT_ERROR, c7)

ble_enabled_degraded(st, device, status, fail, okRead, okCccd, assertOn) ==
  LET mac == mac_address(device)
      setOk == fail # "wiced_bt_set_local_bdaddr"
      c1 == << Call("wiced_bt_set_local_bdaddr", <<>>, mac, setOk) >>
      s1 == [st EXCEPT !.stack.bdaddr = mac]
      w == callback_mac_address_changed(st.message, st.file, mac, fail # "nbt_write_file")
      s2 == [s1 EXCEPT !.message = w.message, !.file = w.file]
      c2 == Append(c1, w.call)
  IN IF status # WICED_BT_SUCCESS THEN Outcome(st, WICED_BT_ERROR, <<>>)
     ELSE IF ~setOk THEN Outcome(st, WICED_BT_ERROR, c1)
     ELSE enabled_after_push(s2, mac, c2, fail, okRead, okCccd, assertOn)

ble_enabled(st, device, status, fail, okRead, okCccd, assertOn) ==
  LET mac == mac_address(device)
      setOk == fail # "wiced_bt_set_local_bdaddr"
      c1 == << Call("wiced_bt_set_local_bdaddr", <<>>, mac, setOk) >>
      s1 == [st EXCEPT !.stack.bdaddr = mac]
      w == callback_mac_address_changed(st.message, st.file, mac, fail # "nbt_write_file")
      s2 == [s1 EXCEPT !.message = w.message, !.file = w.file]
      c2 == Append(c1, w.call)
  IN IF status # WICED_BT_SUCCESS THEN Outcome(st, WICED_BT_ERROR, <<>>)
     ELSE IF ~setOk THEN Outcome(st, WICED_BT_ERROR, c1)
     ELSE IF ifx_error_check(w.status) THEN Outcome(s2, WICED_BT_ERROR, c2)
     ELSE enabled_after_push(s2, mac, c2, fail, okRead, okCccd, assertOn)

\* the state a handler of ble_callback reads and writes
Current ==
  [pc |-> pc, message |-> CONNECTION_HANDOVER_MESSAGE, file |-> ndef_file,
   bonding |-> bonding_info, cccd |-> cccd, identity |-> local_identity_keys,
   char_config |-> app_hids_report_client_char_config, store |-> data_storage,
   stack |-> stack, conn |-> connection_id, report |-> app_hids_report, cur_len |-> cur_len]

\* the handler's outcome becomes the next state
Assign(o, event) ==
  /\ pc' = o.st.pc
  /\ CONNECTION_HANDOVER_MESSAGE' = o.st.message
  /\ ndef_file' = o.st.file
  /\ bonding_info' = o.st.bonding
  /\ cccd' = o.st.cccd
  /\ local_identity_keys' = o.st.identity
  /\ app_hids_report_client_char_config' = o.st.char_config
  /\ data_storage' = o.st.store
  /\ stack' = o.st.stack
  /\ evt' = event
  /\ ret' = o.ret
  /\ calls' = o.calls
  /\ connection_id' = o.st.conn
  /\ app_hids_report' = o.st.report
  /\ cur_len' = o.st.cur_len
  /\ UNCHANGED hw

\* a handler that runs outside the button task
Becomes(o, event) == Assign(o, event) /\ UNCHANGED button_vars

StatusCode(status) == IF status = WICED_BT_SUCCESS THEN 0 ELSE 1

BTM_ENABLED_EVT(status, fail, okRead, okCccd, assertOn) ==
  /\ pc = "running"
  /\ LET o == ble_enabled(Current, hw, status, fail, okRead, okCccd, assertOn)
         up == [o EXCEPT !.st.stack.state = IF status = WICED_BT_SUCCESS THEN "enabled" ELSE "failed"]
     IN Becomes(up, Event("BTM_ENABLED_EVT", <<StatusCode(status)>>, <<>>))
  /\ UNCHANGED << last_keys_update, paired, subscriber >>

(***************************************************************************)
(* ble_callback, BTM_SMP_SC_LOCAL_OOB_DATA_NOTIFICATION_EVT                *)
(***************************************************************************)
OobSteps ==
  { "none", "random_push", "mbedtls_cipher_setup", "mbedtls_cipher_cmac_starts",
    "mbedtls_cipher_cmac_update", "mbedtls_cipher_cmac_finish", "confirmation_push" }

\* the steps of the MAC derivation
CmacSteps ==
  { "mbedtls_cipher_setup", "mbedtls_cipher_cmac_starts", "mbedtls_cipher_cmac_update",
    "mbedtls_cipher_cmac_finish" }

\* the local OOB data of the event
OobData(x, randomizer) == [x |-> x, randomizer |-> randomizer]

random_value_of_event(oob_data) == oob_data.randomizer

\* uint8_t random_value[0x10U] = {0x00U}
random_value(oob_data) == Rep(SC_VALUE_LEN, 0)

\* uint8_t m[0x20U + 0x20U + 1U] after the two memcpy: the last byte is never
\* written and holds whatever the stack frame held
cmac_message(oob_data, indeterminate) == oob_data.x \o oob_data.x \o << indeterminate >>

\* mbedTLS AES-128-CMAC of message under key.  The cipher is not computed; it
\* is replaced by a keyed checksum that depends on the key, on every byte of
\* the message and on its length.
WeightedSum(bytes) ==
  LET S[i \in 0..Len(bytes)] == IF i = 0 THEN 0 ELSE (S[i - 1] + i * bytes[i]) % 256
  IN S[Len(bytes)]

mbedtls_cipher_cmac(key, message) ==
  LET d == WeightedSum(message) + Len(message)
  IN [i \in 1..SC_VALUE_LEN |-> (d * (2 * i - 1) + 3 * key[i] + i) % 256]

ble_oob_data_finish_unchecked(st, oob_data, indeterminate, fail) ==
  LET key == random_value(oob_data)
      r == callback_sc_random_value_changed(st.message, st.file, key, fail # "random_push")
      s1 == [st EXCEPT !.message = r.message, !.file = r.file]
      c1 == << r.call >>
      m == cmac_message(oob_data, indeterminate)
      c2 == Append(c1, Call("mbedtls_cipher_setup", <<>>, <<>>, fail # "mbedtls_cipher_setup"))
      c3 == Append(c2, Call("mbedtls_cipher_cmac_starts", <<Len(key) * 8>>, key,
                            fail # "mbedtls_cipher_cmac_starts"))
      c4 == Append(c3, Call("mbedtls_cipher_cmac_update", <<Len(m)>>, m,
                            fail # "mbedtls_cipher_cmac_update"))
      c5 == Append(c4, Call("mbedtls_cipher_cmac_finish", <<>>, <<>>,
                            fail # "mbedtls_cipher_cmac_finish"))
      confirmation_value == mbedtls_cipher_cmac(key, m)
      c == callback_sc_confirmation_value_changed(s1.message, s1.file, confirmation_value,
                                                  fail # "confirmation_push")
      s2 == [s1 EXCEPT !.message = c.message, !.file = c.file]
      c6 == Append(c5, c.call)
  IN IF ifx_error_check(r.status) THEN Outcome(s1, WICED_BT_ERROR, c1)
     ELSE IF fail = "mbedtls_cipher_setup" THEN Outcome(s1, WICED_BT_ERROR, c2)
     ELSE IF fail = "mbedtls_cipher_cmac_starts" THEN Outcome(s1, WICED_BT_ERROR, c3)
     ELSE IF fail = "mbedtls_cipher_cmac_update" THEN Outcome(s1, WICED_BT_ERROR, c4)
     ELSE IF ifx_error_check(c.status) THEN Outcome(s2, WICED_BT_ERROR, c6)
     ELSE Outcome(s2, WICED_BT_SUCCESS, c6)

ble_oob_data_keyed_by_event(st, oob_data, indeterminate, fail) ==
  LET key == random_value(oob_data)
      r == callback_sc_random_value_changed(st.message, st.file, key, fail # "random_push")
      s1 == [st EXCEPT !.message = r.message, !.file = r.file]
      c1 == << r.call >>
      m == cmac_message(oob_data, indeterminate)
      c2 == Append(c1, Call("mbedtls_cipher_setup", <<>>, <<>>, fail # "mbedtls_cipher_setup"))
      c3 == Append(c2, Call("mbedtls_cipher_cmac_starts", <<Len(key) * 8>>, key,
                            fail # "mbedtls_cipher_cmac_starts"))
      c4 == Append(c3, Call("mbedtls_cipher_cmac_update", <<Len(m)>>, m,
                            fail # "mbedtls_cipher_cmac_update"))
      c5 == Append(c4, Call("mbedtls_cipher_cmac_finish", <<>>, <<>>,
                            fail # "mbedtls_cipher_cmac_finish"))
      confirmation_value == mbedtls_cipher_cmac(oob_data.randomizer, m)
      c == callback_sc_confirmation_value_changed(s1.message, s1.file, confirmation_value,
                                                  fail # "confirmation_push")
      s2 == [s1 EXCEPT !.message = c.message, !.file = c.file]
      c6 == Append(c5, c.call)
  IN IF ifx_error_check(r.status) THEN Outcome(s1, WICED_BT_ERROR, c1)
     ELSE IF fail = "mbedtls_cipher_setup" THEN Outcome(s1, WICED_BT_ERROR, c2)
     ELSE IF fail = "mbedtls_cipher_cmac_starts" THEN Outcome(s1, WICED_BT_ERROR, c3)
     ELSE IF fail = "mbedtls_cipher_cmac_update" THEN Outcome(s1, WICED_BT_ERROR, c4)
     ELSE IF fail = "mbedtls_cipher_cmac_finish" THEN Outcome(s1, WICED_BT_ERROR, c5)
     ELSE IF ifx_error_check(c.status) THEN Outcome(s2, WICED_BT_ERROR, c6)
     ELSE Outcome(s2, WICED_BT_SUCCESS, c6)

ble_oob_data(st, oob_data, indeterminate, fail) ==
  LET key == random_value(oob_data)
      r == callback_sc_random_value_changed(st.message, st.file, key, fail # "random_push")
      s1 == [st EXCEPT !.message = r.message, !.file = r.file]
      c1 == << r.call >>
      m == cmac_message(oob_data, indeterminate)
      c2 == Append(c1, Call("mbedtls_cipher_setup", <<>>, <<>>, fail # "mbedtls_cipher_setup"))
      c3 == Append(c2, Call("mbedtls_cipher_cmac_starts", <<Len(key) * 8>>, key,
                            fail # "mbedtls_cipher_cmac_starts"))
      c4 == Append(c3, Call("mbedtls_cipher_cmac_update", <<Len(m)>>, m,
                            fail # "mbedtls_cipher_cmac_update"))
      c5 == Append(c4, Call("mbedtls_cipher_cmac_finish", <<>>, <<>>,
                            fail # "mbedtls_cipher_cmac_finish"))
      confirmation_value == mbedtls_cipher_cmac(key, m)
      c == callback_sc_confirmation_value_changed(s1.message, s1.file, confirmation_value,
                                                  fail # "confirmation_push")
      s2 == [s1 EXCEPT !.message = c.message, !.file = c.file]
      c6 == Append(c5, c.call)
  IN IF ifx_error_check(r.status) THEN Outcome(s1, WICED_BT_ERROR, c1)
     ELSE IF fail = "mbedtls_cipher_setup" THEN Outcome(s1, WICED_BT_ERROR, c2)
     ELSE IF fail = "mbedtls_cipher_cmac_starts" THEN Outcome(s1, WICED_BT_ERROR, c3)
     ELSE IF fail = "mbedtls_cipher_cmac_update" THEN Outcome(s1, WICED_BT_ERROR, c4)
     ELSE IF fail = "mbedtls_cipher_cmac_finish" THEN Outcome(s1, WICED_BT_ERROR, c5)
     ELSE IF ifx_error_check(c.status) THEN Outcome(s2, WICED_BT_ERROR, c6)
     ELSE Outcome(s2, WICED_BT_SUCCESS, c6)

BTM_SMP_SC_LOCAL_OOB_DATA_NOTIFICATION_EVT(x, randomizer, indeterminate, fail) ==
  /\ pc = "running"
  /\ LET o == ble_oob_data(Current, OobData(x, randomizer), indeterminate, fail)
         taken == [o EXCEPT !.st.stack.oob_pending = FALSE]
     IN Becomes(taken, Event("BTM_SMP_SC_LOCAL_OOB_DATA_NOTIFICATION_EVT", x \o randomizer, <<>>))
  /\ UNCHANGED << last_keys_update, paired, subscriber >>

(***************************************************************************)
(* ble_callback, the pairing, key and advertising events                   *)
(***************************************************************************)
IdentityKeys == { <<5>>, <<6>> }

\* states the stack reports in BTM_BLE_ADVERT_STATE_CHANGED_EVT: 0 is BTM_BLE_ADVERT_OFF
AdvertStates == { 0, 1 }

BTM_PAIRING_IO_CAPABILITIES_BLE_REQUEST_EVT ==
  /\ pc = "running"
  \* of the fields written, the buffer keeps max_key_size = 0x10 here
  /\ Becomes(Outcome(Current, WICED_BT_SUCCESS, <<>>),
             Event("BTM_PAIRING_IO_CAPABILITIES_BLE_REQUEST_EVT", <<>>, <<SC_VALUE_LEN>>))
  /\ UNCHANGED << last_keys_update, paired, subscriber >>

pairing_complete_when_saved(st, okWrite) ==
  LET bonded == [st.bonding EXCEPT !.bonded = okWrite]
      s1 == [st EXCEPT !.bonding = bonded,
                       !.store = mtb_kvstore_write(st.store, "bonding", BondingBlob(bonded), okWrite)]
  IN Outcome(s1, IF okWrite THEN WICED_BT_SUCCESS ELSE WICED_BT_ERROR,
             << KvCall("mtb_kvstore_write", "bonding", BondingBlob(bonded), okWrite) >>)

pairing_complete(st, okWrite) ==
  LET bonded == [st.bonding EXCEPT !.bonded = TRUE]
      s1 == [st EXCEPT !.bonding = bonded,
                       !.store = mtb_kvstore_write(st.store, "bonding", BondingBlob(bonded), okWrite)]
  IN Outcome(s1, IF okWrite THEN WICED_BT_SUCCESS ELSE WICED_BT_ERROR,
             << KvCall("mtb_kvstore_write", "bonding", BondingBlob(bonded), okWrite) >>)

BTM_PAIRING_COMPLETE_EVT(peer, status, okWrite) ==
  /\ pc = "running"
  /\ Becomes(pairing_complete(Current, okWrite),
             Event("BTM_PAIRING_COMPLETE_EVT", <<peer, status>>, <<>>))
  /\ paired' = TRUE
  /\ UNCHANGED subscriber
  /\ UNCHANGED last_keys_update

advert_state_changed_ignored(st, conn, state, okAdv) == Outcome(st, WICED_BT_SUCCESS, <<>>)

advert_state_changed(st, conn, state, okAdv) ==
  IF state = 0 /\ conn = 0
  THEN Outcome([st EXCEPT !.stack.advert = okAdv],
               IF okAdv THEN WICED_BT_SUCCESS ELSE WICED_BT_ERROR,
               << Call("wiced_bt_start_advertisements", <<1>>, <<>>, okAdv) >>)
  ELSE Outcome(st, WICED_BT_SUCCESS, <<>>)

BTM_BLE_ADVERT_STATE_CHANGED_EVT(state, okAdv) ==
  /\ pc = "running"
  \* the stack reports the state it is in
  /\ LET reported == [Current EXCEPT !.stack.advert = (state # 0),
                                     !.stack.advert_report = "none"]
     IN Becomes(advert_state_changed(reported, connection_id, state, okAdv),
                Event("BTM_BLE_ADVERT_STATE_CHANGED_EVT", <<state>>, <<>>))
  /\ UNCHANGED << last_keys_update, paired, subscriber >>

\* The stack ends its advertising by itself (the advertising period is over)
\* and owes the application the report of it.
advertising_stops ==
  /\ pc = "running"
  /\ stack.state = "enabled"
  /\ stack.advert
  /\ stack' = [stack EXCEPT !.advert = FALSE, !.advert_report = "off"]
  /\ UNCHANGED << pc, hw, CONNECTION_HANDOVER_MESSAGE, ndef_file, bonding_info, cccd,
                  connection_id, local_identity_keys, app_hids_report_client_char_config,
                  data_storage, evt, ret, calls, last_keys_update, paired, subscriber,
                  app_hids_report, cur_len, elapsed_periods, press_start, btn_pc, irq_vars, pulse_conn >>

link_keys_update_dropped(st, keys) == Outcome(st, WICED_BT_SUCCESS, <<>>)

link_keys_update_persisted(st, keys) ==
  LET info == [st.bonding EXCEPT !.device_link_keys = keys]
  IN Outcome([st EXCEPT !.bonding = info,
                        !.store = mtb_kvstore_write(st.store, "bonding", BondingBlob(info), TRUE)],
             WICED_BT_SUCCESS,
             << KvCall("mtb_kvstore_write", "bonding", BondingBlob(info), TRUE) >>)

link_keys_update(st, keys) ==
  Outcome([st EXCEPT !.bonding.device_link_keys = keys], WICED_BT_SUCCESS, <<>>)

BTM_PAIRED_DEVICE_LINK_KEYS_UPDATE_EVT(keys) ==
  /\ pc = "running"
  /\ Becomes(link_keys_update(Current, keys),
             Event("BTM_PAIRED_DEVICE_LINK_KEYS_UPDATE_EVT", keys, <<>>))
  /\ last_keys_update' = keys
  /\ UNCHANGED << paired, subscriber >>

\* the value returned and the buffer handed back
link_keys_request_unchecked(info, buffer) ==
  [ret |-> WICED_BT_SUCCESS, buffer |-> info.device_link_keys]

link_keys_request(info, buffer) ==
  IF ~info.bonded
  THEN [ret |-> WICED_BT_ERROR, buffer |-> buffer]
  ELSE [ret |-> WICED_BT_SUCCESS, buffer |-> info.device_link_keys]

BTM_PAIRED_DEVICE_LINK_KEYS_REQUEST_EVT(buffer) ==
  /\ pc = "running"
  /\ LET r == link_keys_request(bonding_info, buffer)
     IN Becomes(Outcome(Current, r.ret, <<>>),
                Event("BTM_PAIRED_DEVICE_LINK_KEYS_REQUEST_EVT", buffer, r.buffer))
  /\ UNCHANGED << last_keys_update, paired, subscriber >>

identity_keys_update_unchecked(st, keys, okWrite) ==
  Outcome([st EXCEPT !.identity = keys,
                     !.store = mtb_kvstore_write(st.store, "identity_keys", keys, okWrite)],
          WICED_BT_SUCCESS,
          << KvCall("mtb_kvstore_write", "identity_keys", keys, okWrite) >>)

identity_keys_update(st, keys, okWrite) ==
  Outcome([st EXCEPT !.identity = keys,
                     !.store = mtb_kvstore_write(st.store, "identity_keys", keys, okWrite)],
          IF okWrite THEN WICED_BT_SUCCESS ELSE WICED_BT_ERROR,
          << KvCall("mtb_kvstore_write", "identity_keys", keys, okWrite) >>)

BTM_LOCAL_IDENTITY_KEYS_UPDATE_EVT(keys, okWrite) ==
  /\ pc = "running"
  /\ Becomes(identity_keys_update(Current, keys, okWrite),
             Event("BTM_LOCAL_IDENTITY_KEYS_UPDATE_EVT", keys, <<>>))
  /\ UNCHANGED << last_keys_update, paired, subscriber >>

\* the size is read first (NULL buffer), then the blob, into local_identity_keys
identity_keys_request(st, okSize, okRead) ==
  LET sizeOk == mtb_kvstore_read_ok(st.store, "identity_keys", okSize)
      readOk == mtb_kvstore_read_ok(st.store, "identity_keys", okRead)
      c1 == << KvCall("mtb_kvstore_read", "identity_keys", <<>>, sizeOk) >>
      c2 == Append(c1, KvCall("mtb_kvstore_read", "identity_keys", <<>>, readOk))
  IN IF ~sizeOk THEN Outcome(st, WICED_BT_ERROR, c1)
     ELSE IF ~readOk THEN Outcome(st, WICED_BT_ERROR, c2)
     ELSE Outcome([st EXCEPT !.identity = st.store.identity_keys], WICED_BT_SUCCESS, c2)

BTM_LOCAL_IDENTITY_KEYS_REQUEST_EVT(buffer, okSize, okRead) ==
  /\ pc = "running"
  \* event_data->local_identity_keys_request is not written
  /\ Becomes(identity_keys_request(Current, okSize, okRead),
             Event("BTM_LOCAL_IDENTITY_KEYS_REQUEST_EVT", buffer, buffer))
  /\ UNCHANGED << last_keys_update, paired, subscriber >>

encryption_status(st, peer) ==
  IF st.bonding.bonded /\ peer = st.bonding.device_link_keys[1]
  THEN Outcome([st EXCEPT !.char_config[1] = st.cccd % 256], WICED_BT_SUCCESS, <<>>)
  ELSE Outcome(st, WICED_BT_SUCCESS, <<>>)

BTM_ENCRYPTION_STATUS_EVT(peer) ==
  /\ pc = "running"
  /\ Becomes(encryption_status(Current, peer), Event("BTM_ENCRYPTION_STATUS_EVT", <<peer>>, <<>>))
  /\ UNCHANGED << last_keys_update, paired, subscriber >>

BTM_SECURITY_REQUEST_EVT(peer) ==
  /\ pc = "running"
  /\ Becomes(Outcome(Current, WICED_BT_SUCCESS,
                     << Call("wiced_bt_ble_security_grant", <<peer>>, <<>>, TRUE) >>),
             Event("BTM_SECURITY_REQUEST_EVT", <<peer>>, <<>>))
  /\ UNCHANGED << last_keys_update, paired, subscriber >>

\* default: any other management event
OtherManagementEvent ==
  /\ pc = "running"
  /\ Becomes(Outcome(Current, WICED_BT_SUCCESS, <<>>), Event("default", <<>>, <<>>))
  /\ UNCHANGED << last_keys_update, paired, subscriber >>

(***************************************************************************)
(* bluetooth-handling.c: ble_clear_bonding_info (the long button press)    *)
(***************************************************************************)
clear_bonding_info_restart_when_bonded(st, okStop, okDelete, okWrite, okClear, okAdv) ==
  LET c1 == << Call("wiced_bt_start_advertisements", <<0>>, <<>>, okStop) >>
      s1 == [st EXCEPT !.stack.advert = FALSE]
      cleared == [device_link_keys |-> ZeroLinkKeys, bonded |-> FALSE]
      s3 == [s1 EXCEPT !.bonding = cleared,
                       !.store = mtb_kvstore_write(st.store, "bonding", BondingBlob(cleared), okWrite),
                       !.stack.resolution_db = IF okClear THEN {} ELSE @,
                       !.stack.advert = okAdv]
      c3 == c1 \o << Call("wiced_bt_dev_delete_bonded_device", <<st.bonding.device_link_keys[1]>>,
                          <<>>, okDelete),
                     KvCall("mtb_kvstore_write", "bonding", BondingBlob(cleared), okWrite),
                     Call("wiced_bt_ble_address_resolution_list_clear_and_disable", <<>>, <<>>, okClear),
                     Call("wiced_bt_start_advertisements", <<1>>, <<>>, okAdv) >>
  IN IF ~okStop THEN Outcome(st, "none", c1)
     ELSE IF ~st.bonding.bonded THEN Outcome(s1, "none", c1)
     ELSE Outcome(s3, "none", c3)

clear_bonding_info_when_forgotten(st, okStop, okDelete, okWrite, okClear, okAdv) ==
  LET c1 == << Call("wiced_bt_start_advertisements", <<0>>, <<>>, okStop) >>
      s1 == [st EXCEPT !.stack.advert = FALSE]
      cleared == [device_link_keys |-> ZeroLinkKeys, bonded |-> FALSE]
      cd == c1 \o << Call("wiced_bt_dev_delete_bonded_device", <<st.bonding.device_link_keys[1]>>,
                          <<>>, okDelete) >>
      s2 == IF st.bonding.bonded /\ okDelete
            THEN [s1 EXCEPT !.bonding = cleared,
                            !.store = mtb_kvstore_write(st.store, "bonding", BondingBlob(cleared), okWrite)]
            ELSE s1
      c2 == IF st.bonding.bonded
            THEN IF okDelete
                 THEN cd \o << KvCall("mtb_kvstore_write", "bonding", BondingBlob(cleared), okWrite) >>
                 ELSE cd
            ELSE c1
      s3 == [s2 EXCEPT !.stack.resolution_db = IF okClear THEN {} ELSE @,
                       !.stack.advert = okAdv]
      c3 == c2 \o << Call("wiced_bt_ble_address_resolution_list_clear_and_disable", <<>>, <<>>, okClear),
                     Call("wiced_bt_start_advertisements", <<1>>, <<>>, okAdv) >>
  IN IF ~okStop THEN Outcome(st, "none", c1) ELSE Outcome(s3, "none", c3)

clear_bonding_info_stop_unchecked(st, okStop, okDelete, okWrite, okClear, okAdv) ==
  LET c1 == << Call("wiced_bt_start_advertisements", <<0>>, <<>>, okStop) >>
      s1 == [st EXCEPT !.stack.advert = IF okStop THEN FALSE ELSE @]
      cleared == [device_link_keys |-> ZeroLinkKeys, bonded |-> FALSE]
      s2 == IF st.bonding.bonded
            THEN [s1 EXCEPT !.bonding = cleared,
                            !.store = mtb_kvstore_write(st.store, "bonding", BondingBlob(cleared), okWrite)]
            ELSE s1
      c2 == IF st.bonding.bonded
            THEN c1 \o << Call("wiced_bt_dev_delete_bonded_device", <<st.bonding.device_link_keys[1]>>,
                               <<>>, okDelete),
                          KvCall("mtb_kvstore_write", "bonding", BondingBlob(cleared), okWrite) >>
            ELSE c1
      s3 == [s2 EXCEPT !.stack.resolution_db = IF okClear THEN {} ELSE @,
                       !.stack.advert = okAdv]
      c3 == c2 \o << Call("wiced_bt_ble_address_resolution_list_clear_and_disable", <<>>, <<>>, okClear),
                     Call("wiced_bt_start_advertisements", <<1>>, <<>>, okAdv) >>
  IN Outcome(s3, "none", c3)

clear_bonding_info(st, okStop, okDelete, okWrite, okClear, okAdv) ==
  LET c1 == << Call("wiced_bt_start_advertisements", <<0>>, <<>>, okStop) >>
      s1 == [st EXCEPT !.stack.advert = FALSE]
      cleared == [device_link_keys |-> ZeroLinkKeys, bonded |-> FALSE]
      s2 == IF st.bonding.bonded
            THEN [s1 EXCEPT !.bonding = cleared,
                            !.store = mtb_kvstore_write(st.store, "bonding", BondingBlob(cleared), okWrite)]
            ELSE s1
      c2 == IF st.bonding.bonded
            THEN c1 \o << Call("wiced_bt_dev_delete_bonded_device", <<st.bonding.device_link_keys[1]>>,
                               <<>>, okDelete),
                          KvCall("mtb_kvstore_write", "bonding", BondingBlob(cleared), okWrite) >>
            ELSE c1
      s3 == [s2 EXCEPT !.stack.resolution_db = IF okClear THEN {} ELSE @,
                       !.stack.advert = okAdv]
      c3 == c2 \o << Call("wiced_bt_ble_address_resolution_list_clear_and_disable", <<>>, <<>>, okClear),
                     Call("wiced_bt_start_advertisements", <<1>>, <<>>, okAdv) >>
  IN IF ~okStop THEN Outcome(st, "none", c1) ELSE Outcome(s3, "none", c3)

\* history: the reset forgets the bonded peer
forgets(sub, info, okStop) ==
  IF okStop /\ info.bonded /\ sub.peer # 0 /\ sub.peer = info.device_link_keys[1]
  THEN [sub EXCEPT !.forgotten = TRUE]
  ELSE sub

ble_clear_bonding_info(okStop, okDelete, okWrite, okClear, okAdv) ==
  /\ pc # "asserted"
  /\ btn_pc = "idle"
  \* a stack that is not up refuses every command
  /\ stack.state # "enabled" => ~okStop
  /\ Becomes(clear_bonding_info(Current, okStop, okDelete, okWrite, okClear, okAdv),
             Event("ble_clear_bonding_info", <<>>, <<>>))
  /\ last_keys_update' = <<>>
  /\ paired' = FALSE
  /\ subscriber' = forgets(subscriber, bonding_info, okStop)

(***************************************************************************)
(* bluetooth-handling.c: gatt_callback                                     *)
(***************************************************************************)
WICED_BT_GATT_SUCCESS == "WICED_BT_GATT_SUCCESS"

WICED_BT_GATT_ERROR == "WICED_BT_GATT_ERROR"

WICED_BT_GATT_INVALID_HANDLE == "WICED_BT_GATT_INVALID_HANDLE"

WICED_BT_GATT_INVALID_ATTR_LEN == "WICED_BT_GATT_INVALID_ATTR_LEN"

WICED_BT_GATT_INVALID_OFFSET == "WICED_BT_GATT_INVALID_OFFSET"

HDLD_HIDS_REPORT_CLIENT_CHAR_CONFIG == "HDLD_HIDS_REPORT_CLIENT_CHAR_CONFIG"

HDLC_HIDS_REPORT_VALUE == "HDLC_HIDS_REPORT_VALUE"

\* a handle the attribute table does not hold
HDL_UNKNOWN == "HDL_UNKNOWN"

Handles == { HDLD_HIDS_REPORT_CLIENT_CHAR_CONFIG, HDLC_HIDS_REPORT_VALUE, HDL_UNKNOWN }

\* app_gatt_db_ext_attr_tbl: the declared maximum length of the two attributes
max_len == [cccd |-> 2, report |-> 1]

\* the attribute of the table with this handle, "NULL" when there is none
handle2attr(handle) ==
  IF handle = HDLD_HIDS_REPORT_CLIENT_CHAR_CONFIG THEN "cccd"
  ELSE IF handle = HDLC_HIDS_REPORT_VALUE THEN "report"
  ELSE "NULL"

\* an event of gatt_callback: the handle it names and the bytes it carries
GattEvent(type, handle, arg) == [type |-> type, arg |-> arg, out |-> <<>>, handle |-> handle]

\* (attribute->p_data[1] << 8) | attribute->p_data[0]
cccd_of_attribute(p_data) == p_data[2] * 256 + p_data[1]

connection_status_id_kept(st, connected, conn_id, okAdv) ==
  IF connected
  THEN Outcome([st EXCEPT !.conn = conn_id], WICED_BT_GATT_SUCCESS, <<>>)
  ELSE Outcome([st EXCEPT !.stack.advert = okAdv],
               IF okAdv THEN WICED_BT_SUCCESS ELSE WICED_BT_ERROR,
               << Call("wiced_bt_start_advertisements", <<1>>, <<>>, okAdv) >>)

\* GATT_CONNECTION_STATUS_EVT
connection_status(st, connected, conn_id, okAdv) ==
  IF connected
  THEN Outcome([st EXCEPT !.conn = conn_id], WICED_BT_GATT_SUCCESS, <<>>)
  ELSE Outcome([st EXCEPT !.conn = 0, !.stack.advert = okAdv],
               IF okAdv THEN WICED_BT_SUCCESS ELSE WICED_BT_ERROR,
               << Call("wiced_bt_start_advertisements", <<1>>, <<>>, okAdv) >>)

GATT_CONNECTION_STATUS_EVT(connected, conn_id, okAdv) ==
  /\ pc = "running"
  /\ stack.gatt_registered
  \* the stack reports the state it is in: a link ends its advertising
  /\ LET reported == [Current EXCEPT
                        !.stack.link = connected,
                        !.stack.advert = IF connected THEN FALSE ELSE @,
                        !.stack.advert_report = IF connected /\ stack.advert THEN "off" ELSE @]
     IN Becomes(connection_status(reported, connected, conn_id, okAdv),
             GattEvent("GATT_CONNECTION_STATUS_EVT", "",
                       << IF connected THEN 1 ELSE 0, conn_id >>))
  /\ UNCHANGED << last_keys_update, paired, subscriber >>

MIN(a, b) == IF a < b THEN a ELSE b

offset_beyond_strictly(offset, len) == offset > len

\* read_req.offset >= attribute->cur_len
offset_beyond(offset, len) == offset >= len

\* GATT_ATTRIBUTE_REQUEST_EVT with GATT_REQ_READ or GATT_REQ_READ_BLOB
attribute_read(st, handle, offset, len_requested, okRsp) ==
  LET attribute == handle2attr(handle)
      p_data == IF attribute = "cccd" THEN st.char_config ELSE st.report
      len == MIN(len_requested, st.cur_len[attribute] - offset)
      response == SubSeq(p_data, offset + 1, offset + len)
  IN IF attribute = "NULL"
     THEN Outcome(st, WICED_BT_GATT_INVALID_HANDLE,
                  << Call("wiced_bt_gatt_server_send_error_rsp", <<>>, <<>>, TRUE) >>)
     ELSE IF offset_beyond(offset, st.cur_len[attribute])
     THEN Outcome(st, WICED_BT_GATT_INVALID_OFFSET,
                  << Call("wiced_bt_gatt_server_send_error_rsp", <<>>, <<>>, TRUE) >>)
     ELSE Outcome(st, IF okRsp THEN WICED_BT_GATT_SUCCESS ELSE WICED_BT_GATT_ERROR,
                  << Call("wiced_bt_gatt_server_send_read_handle_rsp", <<len>>, response, okRsp) >>)

GATT_REQ_READ(handle, offset, len_requested, okRsp) ==
  /\ pc = "running"
  /\ stack.gatt_registered
  /\ connection_id # 0
  /\ Becomes(attribute_read(Current, handle, offset, len_requested, okRsp),
             GattEvent("GATT_REQ_READ", handle, << offset, len_requested >>))
  /\ UNCHANGED << last_keys_update, paired, subscriber >>

\* GATT_ATTRIBUTE_REQUEST_EVT with GATT_REQ_WRITE or GATT_CMD_WRITE
attribute_write_any_length(st, handle, val, okWrite, okRsp) ==
  LET attribute == handle2attr(handle)
      p_data == IF attribute = "cccd" THEN st.char_config ELSE st.report
      written == memcpy(p_data, 0, val)
      s1 == IF attribute = "cccd"
            THEN [st EXCEPT !.char_config = written, !.cur_len.cccd = Len(val)]
            ELSE [st EXCEPT !.report = written, !.cur_len.report = Len(val)]
      value == cccd_of_attribute(written)
      s2 == [s1 EXCEPT !.cccd = value,
                       !.store = mtb_kvstore_write(s1.store, "cccd", CccdBlob(value), okWrite)]
      rsp == Call("wiced_bt_gatt_server_send_write_rsp", <<>>, <<>>, okRsp)
      status == IF okRsp THEN WICED_BT_GATT_SUCCESS ELSE WICED_BT_GATT_ERROR
  IN IF attribute = "NULL"
     THEN Outcome(st, WICED_BT_GATT_INVALID_HANDLE,
                  << Call("wiced_bt_gatt_server_send_error_rsp", <<>>, <<>>, TRUE) >>)
     ELSE IF attribute = "cccd" /\ Len(val) >= 2
     THEN Outcome(s2, status, << KvCall("mtb_kvstore_write", "cccd", CccdBlob(value), okWrite), rsp >>)
     ELSE Outcome(s1, status, << rsp >>)

attribute_write(st, handle, val, okWrite, okRsp) ==
  LET attribute == handle2attr(handle)
      p_data == IF attribute = "cccd" THEN st.char_config ELSE st.report
      written == memcpy(p_data, 0, val)
      s1 == IF attribute = "cccd"
            THEN [st EXCEPT !.char_config = written, !.cur_len.cccd = Len(val)]
            ELSE [st EXCEPT !.report = written, !.cur_len.report = Len(val)]
      value == cccd_of_attribute(written)
      s2 == [s1 EXCEPT !.cccd = value,
                       !.store = mtb_kvstore_write(s1.store, "cccd", CccdBlob(value), okWrite)]
      rsp == Call("wiced_bt_gatt_server_send_write_rsp", <<>>, <<>>, okRsp)
      status == IF okRsp THEN WICED_BT_GATT_SUCCESS ELSE WICED_BT_GATT_ERROR
  IN IF attribute = "NULL"
     THEN Outcome(st, WICED_BT_GATT_INVALID_HANDLE,
                  << Call("wiced_bt_gatt_server_send_error_rsp", <<>>, <<>>, TRUE) >>)
     ELSE IF Len(val) > max_len[attribute]
     THEN Outcome(st, WICED_BT_GATT_INVALID_ATTR_LEN, <<>>)
     ELSE IF attribute = "cccd" /\ Len(val) >= 2
     THEN Outcome(s2, status, << KvCall("mtb_kvstore_write", "cccd", CccdBlob(value), okWrite), rsp >>)
     ELSE Outcome(s1, status, << rsp >>)

GATT_REQ_WRITE(handle, val, okWrite, okRsp) ==
  /\ pc = "running"
  /\ stack.gatt_registered
  /\ connection_id # 0
  /\ Becomes(attribute_write(Current, handle, val, okWrite, okRsp),
             GattEvent("GATT_REQ_WRITE", handle, val))
  /\ subscriber' = IF /\ handle2attr(handle) = "cccd"
                      /\ Len(val) >= 2
                      /\ Len(val) <= max_len["cccd"]
                   THEN [peer |-> IF bonding_info.bonded THEN bonding_info.device_link_keys[1] ELSE 0,
                         forgotten |-> FALSE]
                   ELSE subscriber
  /\ UNCHANGED << last_keys_update, paired >>

(***************************************************************************)
(* bluetooth-handling.c: ble_gatt_send_hid_update (the short button press) *)
(***************************************************************************)
\* (app_hids_report_client_char_config[0] & GATT_CLIENT_CONFIG_NOTIFICATION) != 0
notification_enabled(char_config) == char_config[1] % 2 # 0

send_notification(conn, report, ok) ==
  Call("wiced_bt_gatt_server_send_notification", << conn >>, report, ok)

\* up to vTaskDelay: the report is set and sent; "delayed" tells whether the
\* function reached the delay or returned at once
send_hid_update_begin(st, ok) ==
  IF notification_enabled(st.char_config)
  THEN [st |-> [st EXCEPT !.report = <<1>>], ret |-> "none",
        calls |-> << send_notification(st.conn, <<1>>, ok) >>, delayed |-> TRUE]
  ELSE [st |-> st, ret |-> "none", calls |-> <<>>, delayed |-> FALSE]

send_hid_update_end_left_active(st, ok) ==
  Outcome(st, "none", << send_notification(st.conn, st.report, ok) >>)

\* after vTaskDelay: the report is cleared and sent
send_hid_update_end(st, ok) ==
  Outcome([st EXCEPT !.report = <<0>>], "none", << send_notification(st.conn, <<0>>, ok) >>)

\* the function up to its delay, called directly
ble_gatt_send_hid_update(ok) ==
  /\ pc # "asserted"
  /\ btn_pc = "idle"
  \* the stack sends to a connection it has
  /\ ok => (stack.state = "enabled" /\ connection_id # 0)
  /\ LET o == send_hid_update_begin(Current, ok)
     IN /\ Assign(o, Event("ble_gatt_send_hid_update", <<>>, <<>>))
        /\ btn_pc' = IF o.delayed THEN "vTaskDelay" ELSE "idle"
        /\ pulse_conn' = IF o.delayed THEN connection_id ELSE pulse_conn
  /\ UNCHANGED << elapsed_periods, press_start, last_keys_update, paired, subscriber, irq_vars >>

\* the function from its delay to its return
ble_gatt_send_hid_update_resume(ok) ==
  /\ pc # "asserted"
  /\ btn_pc = "vTaskDelay"
  /\ ok => (stack.state = "enabled" /\ connection_id # 0)
  /\ Assign(send_hid_update_end(Current, ok), Event("ble_gatt_send_hid_update_resume", <<>>, <<>>))
  /\ btn_pc' = "idle"
  /\ UNCHANGED << elapsed_periods, press_start, last_keys_update, paired, subscriber, irq_vars, pulse_conn >>

(***************************************************************************)
(* main.c: time_keeper and btn_task                                        *)
(***************************************************************************)
PERIOD_LENGTH_MS == 100

LONG_PRESS_MS == 5000

\* uint32_t values are computed in two 16-bit halves
Half == 2 ^ 16

\* the uint32_t product a * b as << high half, low half >>, for a below 2^31
\* and b below 2^15
uint32_product(a, b) ==
  LET low == (a % Half) * b
  IN << ((a \div Half) * b + low \div Half) % Half, low % Half >>

\* product > threshold, for a threshold below 2^16
uint32_greater(product, threshold) == product[1] > 0 \/ product[2] > threshold

\* the first count of periods whose product with PERIOD_LENGTH_MS does not fit
\* in 32 bits: 2^32 / PERIOD_LENGTH_MS + 1
WrappingHold == (Half * (Half \div 4)) \div (PERIOD_LENGTH_MS \div 4) + 1

\* the values of elapsed_periods the button is pressed or released at
TickInstants ==
  { 0, 2, LONG_PRESS_MS \div PERIOD_LENGTH_MS, LONG_PRESS_MS \div PERIOD_LENGTH_MS + 1,
    LONG_PRESS_MS \div PERIOD_LENGTH_MS + 10, WrappingHold + 2 }

\* period_elapsed, n times in a row: elapsed_periods++
period_elapsed(n) ==
  /\ n > 0
  /\ elapsed_periods' = elapsed_periods + n
  /\ UNCHANGED << pc, hw, CONNECTION_HANDOVER_MESSAGE, ndef_file, bonding_info, cccd,
                  connection_id, local_identity_keys, app_hids_report_client_char_config,
                  data_storage, stack, evt, ret, calls, last_keys_update, paired, subscriber,
                  app_hids_report, cur_len, press_start, btn_pc, irq_vars, pulse_conn >>

\* uint32_t press_duration = elapsed_periods - press_start; the counter does
\* not wrap within the instants above, so start <= now
press_duration(now, start) == now - start

\* (press_duration * PERIOD_LENGTH_MS) > 5000U
is_long_press(duration) ==
  uint32_greater(uint32_product(duration, PERIOD_LENGTH_MS), LONG_PRESS_MS)

\* one pass of the loop of btn_task: the semaphore was taken, the level read
btn_task(level, okStop, okDelete, okWrite, okClear, okAdv, okSend) ==
  /\ pc # "asserted"
  /\ btn_pc = "idle"
  /\ btn_irq_sleeper' = 0
  /\ UNCHANGED << button, pressed_at, last_hold >>
  /\ stack.state # "enabled" => ~okStop
  /\ okSend => (stack.state = "enabled" /\ connection_id # 0)
  /\ LET duration == press_duration(elapsed_periods, press_start)
         event == Event("btn_task", << IF level = CYBSP_BTN_PRESSED THEN 1 ELSE 0 >>, <<>>)
         reset == clear_bonding_info(Current, okStop, okDelete, okWrite, okClear, okAdv)
         update == send_hid_update_begin(Current, okSend)
     IN IF level = CYBSP_BTN_PRESSED
        THEN /\ press_start' = elapsed_periods
             /\ Assign(Outcome(Current, "none", <<>>), event)
             /\ UNCHANGED << btn_pc, last_keys_update, paired, subscriber, pulse_conn >>
        ELSE IF is_long_press(duration)
        THEN /\ Assign([reset EXCEPT !.calls = << Call("ble_clear_bonding_info", <<>>, <<>>, TRUE) >> \o @],
                       event)
             /\ last_keys_update' = <<>>
             /\ paired' = FALSE
             /\ subscriber' = forgets(subscriber, bonding_info, okStop)
             /\ UNCHANGED << btn_pc, press_start, pulse_conn >>
        ELSE /\ Assign([update EXCEPT !.calls = << Call("ble_gatt_send_hid_update", <<>>, <<>>, TRUE) >> \o @],
                       event)
             /\ btn_pc' = IF update.delayed THEN "vTaskDelay" ELSE "idle"
             /\ pulse_conn' = IF update.delayed THEN connection_id ELSE pulse_conn
             /\ UNCHANGED << press_start, last_keys_update, paired, subscriber >>
  /\ UNCHANGED elapsed_periods

\* btn_irq: xSemaphoreGiveFromISR on a binary semaphore, which holds one give
btn_irq(sleeper) == 1

\* an edge of the button: the pin takes the level and btn_irq runs
button_edge(level) ==
  /\ pc # "asserted"
  /\ button # level
  /\ button' = level
  /\ btn_irq_sleeper' = btn_irq(btn_irq_sleeper)
  /\ pressed_at' = IF level = CYBSP_BTN_PRESSED THEN elapsed_periods ELSE pressed_at
  /\ last_hold' = IF level = CYBSP_BTN_OFF THEN elapsed_periods - pressed_at ELSE last_hold
  /\ UNCHANGED << pc, hw, CONNECTION_HANDOVER_MESSAGE, ndef_file, bonding_info, cccd,
                  connection_id, local_identity_keys, app_hids_report_client_char_config,
                  data_storage, stack, evt, ret, calls, last_keys_update, paired, subscriber,
                  app_hids_report, cur_len, elapsed_periods, press_start, btn_pc, pulse_conn >>

\* btn_task is scheduled: xSemaphoreTake returns once the semaphore was given,
\* and cyhal_gpio_read reads the level the pin has by then
btn_task_scheduled(okStop, okDelete, okWrite, okClear, okAdv, okSend) ==
  /\ btn_irq_sleeper = 1
  /\ btn_task(button, okStop, okDelete, okWrite, okClear, okAdv, okSend)

(***************************************************************************)
(* main.c: main, run again after a reset or a power cycle.  The statics are *)
(* initialised anew; the key-value store and the tag keep their contents.   *)
(***************************************************************************)
main ==
  /\ pc # "boot"
  /\ pc' = "boot"
  /\ CONNECTION_HANDOVER_MESSAGE' = SKELETON
  /\ bonding_info' = [device_link_keys |-> ZeroLinkKeys, bonded |-> FALSE]
  /\ cccd' = 0
  /\ connection_id' = 0
  /\ local_identity_keys' = <<0>>
  /\ app_hids_report_client_char_config' = <<0, 0>>
  /\ stack' = [state |-> "off", bdaddr |-> <<>>, advert |-> FALSE, oob_pending |-> FALSE,
               resolution_db |-> {}, gatt_registered |-> FALSE,
               link |-> FALSE, advert_report |-> "none"]
  /\ evt' = Event("main", <<>>, <<>>)
  /\ ret' = "none"
  /\ calls' = <<>>
  /\ last_keys_update' = <<>>
  /\ paired' = FALSE
  /\ UNCHANGED subscriber
  /\ app_hids_report' = <<0>>
  /\ cur_len' = [cccd |-> 2, report |-> 1]
  /\ elapsed_periods' = 0
  /\ press_start' = 0
  /\ btn_pc' = "idle"
  /\ btn_irq_sleeper' = 0
  /\ pulse_conn' = 0
  /\ UNCHANGED << button, pressed_at, last_hold >>
  /\ UNCHANGED << hw, ndef_file, data_storage >>

(***************************************************************************)
(* Specifications                                                          *)
(*                                                                         *)
(* The handlers fall into groups that share no state: the handover message *)
(* and the tag are written by startup_task, BTM_ENABLED_EVT and the OOB    *)
(* notification only; the bonding record by BTM_ENABLED_EVT, the pairing   *)
(* and link-key events and ble_clear_bonding_info.  Each specification     *)
(* below gives one group its full range of inputs and failures.            *)
(***************************************************************************)
Statuses == { WICED_BT_SUCCESS, WICED_BT_ERROR }

Startup(steps) == \E fail \in steps : startup_task(fail)

StackEnabled(statuses, steps, asserts) ==
  \E status \in statuses, fail \in steps, okRead, okCccd \in BOOLEAN, assertOn \in asserts :
    BTM_ENABLED_EVT(status, fail, okRead, okCccd, assertOn)

OobDataReady(keys, randomizers, bytes, steps) ==
  \E x \in keys, randomizer \in randomizers, u \in bytes, fail \in steps :
    BTM_SMP_SC_LOCAL_OOB_DATA_NOTIFICATION_EVT(x, randomizer, u, fail)

PairingComplete ==
  \E peer \in PeerAddresses, status \in {0, 1}, okWrite \in BOOLEAN :
    BTM_PAIRING_COMPLETE_EVT(peer, status, okWrite)

AdvertStateChanged ==
  \E state \in AdvertStates, okAdv \in BOOLEAN : BTM_BLE_ADVERT_STATE_CHANGED_EVT(state, okAdv)

PeerKeysUpdate == \E keys \in LinkKeys : BTM_PAIRED_DEVICE_LINK_KEYS_UPDATE_EVT(keys)

PeerKeysRequest == \E buffer \in RequestBuffers : BTM_PAIRED_DEVICE_LINK_KEYS_REQUEST_EVT(buffer)

IdentityKeysUpdate ==
  \E keys \in IdentityKeys, okWrite \in BOOLEAN : BTM_LOCAL_IDENTITY_KEYS_UPDATE_EVT(keys, okWrite)

IdentityKeysRequest ==
  \E okSize, okRead \in BOOLEAN : BTM_LOCAL_IDENTITY_KEYS_REQUEST_EVT(<<0>>, okSize, okRead)

EncryptionEstablished == \E peer \in PeerAddresses : BTM_ENCRYPTION_STATUS_EVT(peer)

SecurityRequest == \E peer \in PeerAddresses : BTM_SECURITY_REQUEST_EVT(peer)

ResetBonding ==
  \E okStop, okDelete, okWrite, okClear, okAdv \in BOOLEAN :
    ble_clear_bonding_info(okStop, okDelete, okWrite, okClear, okAdv)

TimePasses ==
  \E t \in TickInstants : t > elapsed_periods /\ period_elapsed(t - elapsed_periods)

ButtonEdge(oks) ==
  \E level \in { CYBSP_BTN_PRESSED, CYBSP_BTN_OFF }, okStop, okSend \in BOOLEAN,
     okDelete, okWrite, okClear, okAdv \in oks :
    btn_task(level, okStop, okDelete, okWrite, okClear, okAdv, okSend)

SendNotification == \E ok \in BOOLEAN : ble_gatt_send_hid_update(ok)

SendNotificationResumes == \E ok \in BOOLEAN : ble_gatt_send_hid_update_resume(ok)

ConnectionStatus(oks) ==
  \E connected \in BOOLEAN, conn_id \in ConnectionIds, okAdv \in oks :
    GATT_CONNECTION_STATUS_EVT(connected, conn_id, okAdv)

AttributeWrite(handles, oks) ==
  \E handle \in handles, val \in WriteValues, okWrite \in BOOLEAN, okRsp \in oks :
    GATT_REQ_WRITE(handle, val, okWrite, okRsp)

AttributeRead(handles, oks) ==
  \E handle \in handles, offset \in ReadOffsets, len_requested \in ReadLengths, okRsp \in oks :
    GATT_REQ_READ(handle, offset, len_requested, okRsp)

\* The handover message and the tag, on the device with its stack:
\* BTM_ENABLED_EVT comes first and once, the OOB notification answers a request.
Next ==
  \/ Startup(StartupSteps)
  \/ stack.state = "starting" /\ StackEnabled(Statuses, EnabledSteps, BOOLEAN)
  \/ /\ stack.state = "enabled"
     /\ stack.oob_pending
     /\ OobDataReady(PublicKeyX, Randomizer, IndeterminateByte, OobSteps)

Spec == Init /\ [][Next]_vars

\* ble_callback driven directly, as by a test harness: once the callback is
\* registered, the two handover events in any order and any number of times.
InitHarness == Init /\ hw = HardwareSample(1) /\ data_storage = EmptyStore

NextHarness ==
  \/ Startup({"none"})
  \/ StackEnabled({WICED_BT_SUCCESS}, {"none", "nbt_write_file"}, {FALSE})
  \/ OobDataReady(PublicKeyX, Randomizer, IndeterminateByte, OobSteps)

SpecHarness == InitHarness /\ [][NextHarness]_vars

\* The bonding record, on the device with its stack.
InitBonding == Init /\ hw = HardwareSample(1)

NextBonding ==
  \/ Startup({"none"})
  \/ stack.state = "starting" /\ StackEnabled(Statuses, {"none", "nbt_write_file"}, {FALSE})
  \/ stack.state = "enabled" /\ PairingComplete
  \/ stack.state = "enabled" /\ PeerKeysUpdate
  \/ stack.state = "enabled" /\ PeerKeysRequest
  \/ stack.state = "enabled" /\ EncryptionEstablished
  \/ ResetBonding

SpecBonding == InitBonding /\ [][NextBonding]_vars

\* The button task, on the device with its stack; a peer bonded in an earlier
\* session has subscribed to notifications.
InitButton == Init /\ hw = HardwareSample(1)

NextButton ==
  \/ Startup({"none"})
  \/ stack.state = "starting" /\ StackEnabled({WICED_BT_SUCCESS}, {"none"}, {FALSE})
  \/ stack.state = "enabled" /\ EncryptionEstablished
  \/ TimePasses
  \/ ButtonEdge({TRUE})
  \/ SendNotificationResumes

SpecButton == InitButton /\ [][NextButton]_vars

ButtonPressed == button_edge(CYBSP_BTN_PRESSED)

ButtonReleased == button_edge(CYBSP_BTN_OFF)

ButtonTaskRuns ==
  \E okStop, okSend \in BOOLEAN : btn_task_scheduled(okStop, TRUE, TRUE, TRUE, TRUE, okSend)

\* The button, its interrupt and the button task, interleaved.
InitInterrupts == InitButton

NextInterrupts ==
  \/ Startup({"none"})
  \/ stack.state = "starting" /\ StackEnabled({WICED_BT_SUCCESS}, {"none"}, {FALSE})
  \/ stack.state = "enabled" /\ EncryptionEstablished
  \/ TimePasses
  \/ ButtonPressed
  \/ ButtonReleased
  \/ ButtonTaskRuns
  \/ SendNotificationResumes

SpecInterrupts == InitInterrupts /\ [][NextInterrupts]_vars

\* The attribute server and the notification command, on the device with its
\* stack.
InitGatt == Init /\ hw = HardwareSample(1) /\ data_storage = EmptyStore

NextGatt ==
  \/ Startup({"none"})
  \/ stack.state = "starting" /\ StackEnabled({WICED_BT_SUCCESS}, {"none"}, {FALSE})
  \/ stack.state = "enabled" /\ ConnectionStatus({TRUE})
  \/ stack.state = "enabled" /\ AttributeWrite(Handles, {TRUE})
  \/ SendNotification
  \/ SendNotificationResumes

SpecGatt == InitGatt /\ [][NextGatt]_vars

\* The MAC derivation and its failures, ble_callback driven as by SpecHarness.
InitDerivation == InitHarness

NextDerivation ==
  \/ Startup({"none"})
  \/ StackEnabled({WICED_BT_SUCCESS}, {"none"}, {FALSE})
  \/ OobDataReady(PublicKeyX, {Rep(SC_VALUE_LEN, 0)}, IndeterminateByte, OobSteps)

SpecDerivation == InitDerivation /\ [][NextDerivation]_vars

\* The attribute table, read and written by a connected peer.
InitAttributes == InitGatt

NextAttributes ==
  \/ Startup({"none"})
  \/ stack.state = "starting" /\ StackEnabled({WICED_BT_SUCCESS}, {"none"}, {FALSE})
  \/ stack.state = "enabled" /\ ConnectionStatus({TRUE})
  \/ stack.state = "enabled" /\ AttributeWrite(Handles, {TRUE})
  \/ stack.state = "enabled" /\ AttributeRead(Handles, BOOLEAN)

SpecAttributes == InitAttributes /\ [][NextAttributes]_vars

\* a reset or a power cycle
Restart == main

\* Advertising and the link, with a stack that accepts every command and
\* delivers every report it owes.
LinkUp ==
  /\ ~stack.link
  /\ stack.advert
  /\ \E conn_id \in ConnectionIds : GATT_CONNECTION_STATUS_EVT(TRUE, conn_id, TRUE)

LinkDown == stack.link /\ GATT_CONNECTION_STATUS_EVT(FALSE, connection_id, TRUE)

AdvertisingStopped ==
  stack.advert_report = "off" /\ BTM_BLE_ADVERT_STATE_CHANGED_EVT(0, TRUE)

ResetAccepted == ble_clear_bonding_info(TRUE, TRUE, TRUE, TRUE, TRUE)

InitAdvertising == Init /\ hw = HardwareSample(1)

NextAdvertising ==
  \/ Startup({"none"})
  \/ stack.state = "starting" /\ StackEnabled({WICED_BT_SUCCESS}, {"none"}, {FALSE})
  \/ advertising_stops
  \/ AdvertisingStopped
  \/ LinkUp
  \/ LinkDown
  \/ stack.state = "enabled" /\ PairingComplete
  \/ stack.state = "enabled" /\ ResetAccepted

SpecAdvertising ==
  InitAdvertising /\ [][NextAdvertising]_vars /\ WF_vars(AdvertisingStopped)

\* The subscription of a bonded peer, from one link and one session to the next.
\* (The peer's keys arrive while the device is not bonded.)
Subscribes ==
  \E val \in SubscriptionValues, okWrite \in BOOLEAN :
    GATT_REQ_WRITE(HDLD_HIDS_REPORT_CLIENT_CHAR_CONFIG, val, okWrite, TRUE)

InitSubscription == Init /\ hw = HardwareSample(1) /\ data_storage = EmptyStore

NextSubscription ==
  \/ Startup({"none"})
  \/ stack.state = "starting" /\ StackEnabled({WICED_BT_SUCCESS}, {"none"}, {FALSE})
  \/ stack.state = "enabled" /\ ~bonding_info.bonded /\ PeerKeysUpdate
  \/ stack.state = "enabled" /\ PairingComplete
  \/ stack.state = "enabled" /\ LinkUp
  \/ stack.state = "enabled" /\ LinkDown
  \/ stack.state = "enabled" /\ stack.link /\ EncryptionEstablished
  \/ stack.state = "enabled" /\ stack.link /\ Subscribes
  \/ Restart

SpecSubscription == InitSubscription /\ [][NextSubscription]_vars

\* A bond is reset and another peer pairs, within one session.
InitForgetting == InitSubscription

NextForgetting ==
  \/ Startup({"none"})
  \/ stack.state = "starting" /\ StackEnabled({WICED_BT_SUCCESS}, {"none"}, {FALSE})
  \/ stack.state = "enabled" /\ ~bonding_info.bonded /\ PeerKeysUpdate
  \/ stack.state = "enabled" /\ PairingComplete
  \/ stack.state = "enabled" /\ LinkUp
  \/ stack.state = "enabled" /\ LinkDown
  \/ stack.state = "enabled" /\ stack.link /\ EncryptionEstablished
  \/ stack.state = "enabled" /\ stack.link /\ Subscribes
  \/ stack.state = "enabled" /\ ResetAccepted

SpecForgetting == InitForgetting /\ [][NextForgetting]_vars

\* What the store keeps from one session to the next.
InitStore == Init /\ hw = HardwareSample(1)

NextStore ==
  \/ Startup({"none"})
  \/ stack.state = "starting" /\ StackEnabled(Statuses, {"none", "nbt_write_file"}, {FALSE})
  \/ stack.state = "enabled" /\ PairingComplete
  \/ stack.state = "enabled" /\ PeerKeysUpdate
  \/ stack.state = "enabled" /\ IdentityKeysUpdate
  \/ stack.state = "enabled" /\ IdentityKeysRequest
  \/ Restart

SpecStore == InitStore /\ [][NextStore]_vars

(***************************************************************************)
(* Properties                                                              *)
(***************************************************************************)
OOB_EVT == "BTM_SMP_SC_LOCAL_OOB_DATA_NOTIFICATION_EVT"

KEYS_REQUEST_EVT == "BTM_PAIRED_DEVICE_LINK_KEYS_REQUEST_EVT"

MacField(buf) == Field(buf, CONNECTION_HANDOVER_MESSAGE_MAC_OFFSET, BD_ADDR_LEN)

ConfirmationField(buf) == Field(buf, CONNECTION_HANDOVER_MESSAGE_CONFIRMATION_OFFSET, SC_VALUE_LEN)

RandomField(buf) == Field(buf, CONNECTION_HANDOVER_MESSAGE_RANDOM_OFFSET, SC_VALUE_LEN)

\* the successful pushes of the log that start at offset
PushesAt(log, offset) ==
  { i \in CallsOf(log, "nbt_write_file") : log[i].ok /\ log[i].arg[1] = offset }

\* the stack has the local address, the message holds it reversed, the tag holds
\* the same bytes
AddressPushed ==
  /\ stack.bdaddr # <<>>
  /\ \A i \in 1..BD_ADDR_LEN :
       /\ MacField(CONNECTION_HANDOVER_MESSAGE)[i] = stack.bdaddr[BD_ADDR_LEN + 1 - i]
       /\ MacField(ndef_file)[i] = stack.bdaddr[BD_ADDR_LEN + 1 - i]

\* the public key and the randomizer an OOB notification carried
EventKeyX(event) == SubSeq(event.arg, 1, PUBLIC_KEY_X_LEN)

EventRandomizer(event) == SubSeq(event.arg, PUBLIC_KEY_X_LEN + 1, PUBLIC_KEY_X_LEN + SC_VALUE_LEN)

\* C1: in the calls of a handler, a request for OOB data comes after a
\* successful wiced_bt_set_local_bdaddr and, after that, a successful push of
\* the address field; and while the request is pending the stack, the message
\* and the tag hold the address.
C1_OobRequestAfterAddressPush ==
  /\ \A j \in CallsOf(calls, "wiced_bt_smp_create_local_sc_oob_data") :
       /\ \E i \in CallsOf(calls, "wiced_bt_set_local_bdaddr") :
            \E k \in PushesAt(calls, CONNECTION_HANDOVER_MESSAGE_MAC_OFFSET) :
              i < k /\ k < j /\ calls[i].ok
       /\ AddressPushed
  /\ stack.oob_pending => AddressPushed

C1_Witness ==
  /\ evt.type = "BTM_ENABLED_EVT"
  /\ stack.oob_pending
  /\ CallsOf(calls, "wiced_bt_smp_create_local_sc_oob_data") # {}

\* C2: an OOB notification handled while the address has not been pushed is
\* rejected: it returns an error and issues no call (no field is written, no
\* push is made).
C2_OobBeforeEnabledRejected ==
  (evt.type = OOB_EVT /\ ~AddressPushed) => (ret = WICED_BT_ERROR /\ calls = <<>>)

\* C3: when the tag holds a random value pushed by the OOB notification just
\* handled, the confirmation value on the tag is the one derived in that
\* handling, under that random value.
C3_NoPartialHandoverRecord ==
  (evt.type = OOB_EVT /\ PushesAt(calls, CONNECTION_HANDOVER_MESSAGE_RANDOM_OFFSET) # {})
    => \E u \in CallsOf(calls, "mbedtls_cipher_cmac_update") :
         ConfirmationField(ndef_file) = mbedtls_cipher_cmac(RandomField(ndef_file), calls[u].data)

\* C4 as stated: after a successful OOB notification the random field of the
\* message and of the tag is the randomizer the event delivered.
C4_RandomFieldIsSeed ==
  (evt.type = OOB_EVT /\ ret = WICED_BT_SUCCESS)
    => /\ RandomField(CONNECTION_HANDOVER_MESSAGE) = EventRandomizer(evt)
       /\ RandomField(ndef_file) = EventRandomizer(evt)

\* C4 as amended: after a successful OOB notification the random field of the
\* message and of the tag is sixteen zero bytes, whatever randomizer the event
\* delivered.
C4_RandomFieldIsZero ==
  (evt.type = OOB_EVT /\ ret = WICED_BT_SUCCESS)
    => /\ RandomField(CONNECTION_HANDOVER_MESSAGE) = Rep(SC_VALUE_LEN, 0)
       /\ RandomField(ndef_file) = Rep(SC_VALUE_LEN, 0)

C4_Witness ==
  /\ evt.type = OOB_EVT
  /\ ret = WICED_BT_SUCCESS
  /\ EventRandomizer(evt) # Rep(SC_VALUE_LEN, 0)

\* C5: two successful OOB notifications in a row that carry the same public
\* key x (the key is the same random value in both) write the same
\* confirmation value.
C5_ConfirmationDeterministic ==
  [][ ( /\ evt.type = OOB_EVT /\ ret = WICED_BT_SUCCESS
        /\ evt'.type = OOB_EVT /\ ret' = WICED_BT_SUCCESS
        /\ EventKeyX(evt') = EventKeyX(evt)
        /\ RandomField(CONNECTION_HANDOVER_MESSAGE') = RandomField(CONNECTION_HANDOVER_MESSAGE) )
      => ConfirmationField(CONNECTION_HANDOVER_MESSAGE') = ConfirmationField(CONNECTION_HANDOVER_MESSAGE) ]_vars

\* C6: once the address a was set, the bytes at offsets 39..44 of the message
\* are a in reversed order: byte 39 + i is a[5 - i].
C6_AddressReversed ==
  stack.bdaddr # <<>> =>
    \A i \in 0..(BD_ADDR_LEN - 1) :
      CONNECTION_HANDOVER_MESSAGE[CONNECTION_HANDOVER_MESSAGE_MAC_OFFSET + i + 1]
        = stack.bdaddr[(BD_ADDR_LEN - 1 - i) + 1]

C6_Witness ==
  /\ evt.type = "BTM_ENABLED_EVT"
  /\ stack.bdaddr # <<>>
  /\ stack.bdaddr = mac_address(hw)
  /\ MacField(CONNECTION_HANDOVER_MESSAGE) # stack.bdaddr

\* the three fields of the message that change: <<offset, length>>
MutableFields ==
  { << CONNECTION_HANDOVER_MESSAGE_MAC_OFFSET, BD_ADDR_LEN >>,
    << CONNECTION_HANDOVER_MESSAGE_CONFIRMATION_OFFSET, SC_VALUE_LEN >>,
    << CONNECTION_HANDOVER_MESSAGE_RANDOM_OFFSET, SC_VALUE_LEN >> }

\* index i (from 1) of the message lies in the range <<offset, length>>
InRange(i, range) == range[1] < i /\ i <= range[1] + range[2]

\* C7 as stated: every push to the tag starts at offset 0, has the length of
\* the message and carries the bytes of the message.
C7_PushIsWholeImage ==
  \A i \in CallsOf(calls, "nbt_write_file") :
    /\ calls[i].arg = << 0, MESSAGE_LEN >>
    /\ calls[i].data = CONNECTION_HANDOVER_MESSAGE

\* C7 as amended: a handler of the stack pushes the field it updated and only
\* that field (its offset, its length, the bytes the message holds there);
\* only the write of the skeleton at startup starts at offset 0 with the full
\* length; and a step that changes a field of the message also pushes it.
C7_PushIsUpdatedField ==
  [][ /\ \A i \in CallsOf(calls', "nbt_write_file") :
           IF evt'.type = "startup_task"
           THEN /\ calls'[i].arg = << 0, MESSAGE_LEN >>
                /\ calls'[i].data = CONNECTION_HANDOVER_MESSAGE'
           ELSE /\ calls'[i].arg \in MutableFields
                /\ calls'[i].data = Field(CONNECTION_HANDOVER_MESSAGE', calls'[i].arg[1], calls'[i].arg[2])
      /\ \A f \in MutableFields :
           Field(CONNECTION_HANDOVER_MESSAGE', f[1], f[2]) # Field(CONNECTION_HANDOVER_MESSAGE, f[1], f[2])
             => \E i \in CallsOf(calls', "nbt_write_file") : calls'[i].arg = f ]_vars

C7_Witness ==
  /\ evt.type = OOB_EVT
  /\ ret = WICED_BT_SUCCESS
  /\ PushesAt(calls, CONNECTION_HANDOVER_MESSAGE_RANDOM_OFFSET) # {}
  /\ PushesAt(calls, CONNECTION_HANDOVER_MESSAGE_CONFIRMATION_OFFSET) # {}
  /\ PushesAt(calls, 0) = {}

\* C8: the message keeps its length, every byte outside the three fields
\* keeps the value of the skeleton, and a step changes only bytes of a field
\* it pushes.
C8_OnlyFieldsChange ==
  [][ /\ Len(CONNECTION_HANDOVER_MESSAGE') = MESSAGE_LEN
      /\ \A i \in 1..MESSAGE_LEN :
           /\ (\A f \in MutableFields : ~InRange(i, f))
                => CONNECTION_HANDOVER_MESSAGE'[i] = SKELETON[i]
           /\ CONNECTION_HANDOVER_MESSAGE'[i] # CONNECTION_HANDOVER_MESSAGE[i]
                => \E k \in CallsOf(calls', "nbt_write_file") : InRange(i, calls'[k].arg) ]_vars

C8_Witness ==
  /\ evt.type = OOB_EVT
  /\ ret = WICED_BT_SUCCESS
  /\ \A f \in MutableFields :
       Field(CONNECTION_HANDOVER_MESSAGE, f[1], f[2]) # Field(SKELETON, f[1], f[2])

\* C9: a link keys request handled while the record is not bonded returns an
\* error, leaves the buffer of the event as it was, and leaves the bonding
\* record (in memory and in the store) as it was.
C9_RequestWhileUnbondedFails ==
  [][ (evt'.type = KEYS_REQUEST_EVT /\ ~bonding_info.bonded)
        => /\ ret' = WICED_BT_ERROR
           /\ evt'.out = evt'.arg
           /\ bonding_info' = bonding_info
           /\ data_storage' = data_storage ]_vars

C9_Witness ==
  /\ evt.type = KEYS_REQUEST_EVT
  /\ ~bonding_info.bonded
  /\ ret = WICED_BT_ERROR
  /\ bonding_info.device_link_keys # ZeroLinkKeys
  /\ evt.out # bonding_info.device_link_keys

\* C10: a link keys request handled after pairing completed, with a link keys
\* update on record and no reset of the bonding since, succeeds and fills the
\* buffer with the keys of the most recent update.
C10_RequestReturnsLatestKeys ==
  (evt.type = KEYS_REQUEST_EVT /\ paired /\ last_keys_update # <<>>)
    => (ret = WICED_BT_SUCCESS /\ evt.out = last_keys_update)

C10_Witness ==
  /\ evt.type = KEYS_REQUEST_EVT
  /\ paired
  /\ last_keys_update # <<>>
  /\ ret = WICED_BT_SUCCESS
  /\ evt.out = last_keys_update
  /\ evt.out # evt.arg
  /\ data_storage.bonding # BondingBlob(bonding_info)

RESET_CMD == "ble_clear_bonding_info"

\* the calls of the log the stack answers (advertising, resolution list)
StackCommands(log) ==
  CallsOf(log, "wiced_bt_start_advertisements")
    \cup CallsOf(log, "wiced_bt_ble_address_resolution_list_clear_and_disable")

\* the stack accepted every command of the log
Accepted(log) == \A i \in StackCommands(log) : log[i].ok

\* what a reset leaves: the record in memory, the record in the store, the
\* resolution list, advertising
ResetEndState(info, store, st) ==
  << info, store.bonding, st.resolution_db, st.advert >>

SEND_CMD == "ble_gatt_send_hid_update"

Notifications(log) == CallsOf(log, "wiced_bt_gatt_server_send_notification")

\* C12: ble_gatt_send_hid_update called while there is no connection or while
\* the subscription attribute has notifications off sends no notification,
\* leaves the report value as it was and returns at once.
C12_SendIsNoOpWhenUnsubscribedOrDisconnected ==
  [][ ( /\ evt'.type = SEND_CMD
        /\ btn_pc = "idle"
        /\ \/ connection_id = 0
           \/ ~notification_enabled(app_hids_report_client_char_config) )
        => /\ Notifications(calls') = {}
           /\ app_hids_report' = app_hids_report
           /\ btn_pc' = "idle" ]_vars

\* the commands btn_task dispatched in the pass the log belongs to
Dispatched(log) ==
  { log[i].op : i \in CallsOf(log, "ble_clear_bonding_info") \cup CallsOf(log, SEND_CMD) }

\* number of dispatches in the log
DispatchCount(log) ==
  Cardinality(CallsOf(log, "ble_clear_bonding_info") \cup CallsOf(log, SEND_CMD))

\* C13: a pass of btn_task that reads the button released dispatches exactly
\* one command: ble_clear_bonding_info when the hold (periods between press
\* and release, times PERIOD_LENGTH_MS) is more than LONG_PRESS_MS,
\* ble_gatt_send_hid_update otherwise; a pass that reads it pressed
\* dispatches nothing.  (Passes are taken once a press has been recorded.)
C13_ReleaseDispatchesByHold ==
  [][ ( /\ evt'.type = "btn_task" /\ elapsed_periods' = elapsed_periods /\ btn_pc = "idle"
        /\ press_start > 0 )
        => IF evt'.arg = <<1>>
           THEN DispatchCount(calls') = 0
           ELSE /\ DispatchCount(calls') = 1
                /\ Dispatched(calls') =
                     IF press_duration(elapsed_periods, press_start) > LONG_PRESS_MS \div PERIOD_LENGTH_MS
                     THEN { "ble_clear_bonding_info" }
                     ELSE { SEND_CMD } ]_vars

\* C16: while a command of the button task is part-way through (inside the
\* delay of ble_gatt_send_hid_update), no handler of gatt_callback has run on
\* the state the command uses (the connection, the subscription attribute and
\* flag, the report).
C16_ButtonCommandExcludesCallbacks ==
  btn_pc = "vTaskDelay" => evt.type \notin { "GATT_REQ_WRITE", "GATT_CONNECTION_STATUS_EVT" }

\* C20: after a write to the subscription attribute that was accepted (the
\* write response was sent), the subscription flag in memory is the value the
\* attribute holds and the handler called the store with key "cccd".
C20_FlagFollowsAttribute ==
  ( /\ evt.type = "GATT_REQ_WRITE"
    /\ evt.handle = HDLD_HIDS_REPORT_CLIENT_CHAR_CONFIG
    /\ CallsOf(calls, "wiced_bt_gatt_server_send_write_rsp") # {} )
    => /\ cccd = cccd_of_attribute(app_hids_report_client_char_config)
       /\ \E i \in CallsOf(calls, "mtb_kvstore_write") : calls[i].key = "cccd"


\* C14: whenever an identity keys request succeeds, the blob handed back to
\* the stack in the request's buffer is the blob the store holds under
\* "identity_keys", i.e. the one persisted by the latest successful identity
\* keys update, also when that update was handled before a restart.
C14_RequestRelaysStoredIdentityKeys ==
  (evt.type = "BTM_LOCAL_IDENTITY_KEYS_REQUEST_EVT" /\ ret = WICED_BT_SUCCESS)
    => evt.out = data_storage.identity_keys

ReadsOf(log, key) == { i \in CallsOf(log, "mtb_kvstore_read") : log[i].key = key }

\* a bonding record persisted by a pairing that completed
BondPersisted(store) == Len(store.bonding) = 3 /\ store.bonding[3] = 1

\* C15: when the store holds a bonding record persisted by a completed
\* pairing and BTM_ENABLED_EVT, handled after a restart, reads it, the record
\* in RAM is bonded with the stored link keys, those keys are installed in
\* the stack's resolution list, and the subscription flag is read from the
\* store and, when the store holds one, takes the stored value.
C15_BondRestoredAfterRestart ==
  ( /\ evt.type = "BTM_ENABLED_EVT"
    /\ BondPersisted(data_storage)
    /\ \E i \in ReadsOf(calls, "bonding") : calls[i].ok )
  => /\ bonding_info.bonded
     /\ BondingBlob(bonding_info) = data_storage.bonding
     /\ bonding_info.device_link_keys \in stack.resolution_db
     /\ ReadsOf(calls, "cccd") # {}
     /\ \A i \in ReadsOf(calls, "cccd") : calls[i].ok => cccd = CccdOfBlob(data_storage.cccd)

\* keys paired and persisted in one session are back in RAM in the next
C15_Witness ==
  /\ evt.type = "BTM_ENABLED_EVT"
  /\ data_storage.bonding = <<2, 22, 1>>
  /\ bonding_info = [device_link_keys |-> <<2, 22>>, bonded |-> TRUE]
  /\ <<2, 22>> \in stack.resolution_db
  /\ cccd = 1
  /\ ~paired


\* a step of the MAC derivation failed in this handler
CmacFailed(log) == \E i \in DOMAIN log : log[i].op \in CmacSteps /\ ~log[i].ok

\* C17: when a step of the MAC derivation (setup, start, update or finish)
\* fails while the OOB notification is handled, the handler returns an error,
\* the confirmation field of the handover message and of the tag keep the
\* value they had before the event, and no confirmation value is pushed.
C17_DerivationFailureKeepsConfirmation ==
  [][ (evt'.type = OOB_EVT /\ CmacFailed(calls'))
      => /\ ret' = WICED_BT_ERROR
         /\ ConfirmationField(CONNECTION_HANDOVER_MESSAGE')
              = ConfirmationField(CONNECTION_HANDOVER_MESSAGE)
         /\ ConfirmationField(ndef_file') = ConfirmationField(ndef_file)
         /\ PushesAt(calls', CONNECTION_HANDOVER_MESSAGE_CONFIRMATION_OFFSET) = {} ]_vars

\* the finish step failed after an earlier notification had set the field
C17_Witness ==
  /\ evt.type = OOB_EVT
  /\ \E i \in CallsOf(calls, "mbedtls_cipher_cmac_finish") : ~calls[i].ok
  /\ ret = WICED_BT_ERROR
  /\ ConfirmationField(CONNECTION_HANDOVER_MESSAGE) # ConfirmationField(SKELETON)
  /\ ConfirmationField(ndef_file) = ConfirmationField(CONNECTION_HANDOVER_MESSAGE)
  /\ mbedtls_cipher_cmac(Rep(SC_VALUE_LEN, 0), EventKeyX(evt) \o EventKeyX(evt) \o <<0>>)
       # ConfirmationField(CONNECTION_HANDOVER_MESSAGE)


\* the address push of BTM_ENABLED_EVT was attempted and failed
AddressPushFailed ==
  /\ evt.type = "BTM_ENABLED_EVT"
  /\ \E i \in CallsOf(calls, "nbt_write_file") : ~calls[i].ok

\* the steps of BTM_ENABLED_EVT that follow the address push
StepsAfterPush ==
  { "mtb_kvstore_read", "wiced_bt_ble_set_raw_advertisement_data", "wiced_bt_gatt_register",
    "wiced_bt_smp_create_local_sc_oob_data", "wiced_bt_start_advertisements" }

\* C18: when the address push to the tag fails during BTM_ENABLED_EVT, the
\* handler still loads the bonding record, configures advertising, registers
\* the attribute server, requests the OOB data and starts advertising.
C18_EnabledContinuesAfterFailedPush ==
  AddressPushFailed => \A op \in StepsAfterPush : CallsOf(calls, op) # {}

\* C18, as the code has it: when the address push to the tag fails during
\* BTM_ENABLED_EVT, the handler returns an error at once.  The failed push is
\* its last call: the bonding record is not loaded, advertising is not
\* configured or started, the attribute server is not registered and no OOB
\* data is requested.  The stack holds the address and so does the message in
\* RAM; the tag does not.
C18_EnabledStopsAtFailedPush ==
  AddressPushFailed
    => /\ ret = WICED_BT_ERROR
       /\ calls[Len(calls)].op = "nbt_write_file"
       /\ \A op \in StepsAfterPush : CallsOf(calls, op) = {}
       /\ bonding_info = [device_link_keys |-> ZeroLinkKeys, bonded |-> FALSE]
       /\ ~stack.gatt_registered /\ ~stack.oob_pending /\ ~stack.advert
       /\ stack.bdaddr = mac_address(hw)
       /\ MacField(ndef_file) # MacField(CONNECTION_HANDOVER_MESSAGE)

\* the push failed on a device whose store holds a bond that is not loaded
C18_Witness ==
  /\ AddressPushFailed
  /\ ret = WICED_BT_ERROR
  /\ data_storage.bonding # NotFound
  /\ ~bonding_info.bonded
  /\ MacField(CONNECTION_HANDOVER_MESSAGE) # MacField(ndef_file)


\* BTM_PAIRING_COMPLETE_EVT was handled and its store write failed
PairingNotSaved ==
  /\ evt.type = "BTM_PAIRING_COMPLETE_EVT"
  /\ \E i \in CallsOf(calls, "mtb_kvstore_write") : calls[i].key = "bonding" /\ ~calls[i].ok

\* C19: when the store write of BTM_PAIRING_COMPLETE_EVT fails, the handler
\* returns an error and the bonding record in RAM is bonded all the same; a
\* link keys request that follows succeeds and hands out the link keys held
\* in RAM.
C19_UnsavedPairingServesSession ==
  [][ PairingNotSaved
      => /\ ret = WICED_BT_ERROR
         /\ bonding_info.bonded
         /\ evt'.type = KEYS_REQUEST_EVT
              => (ret' = WICED_BT_SUCCESS /\ evt'.out = bonding_info.device_link_keys) ]_vars

\* a link keys request served from a bond the store never received
C19_Witness ==
  /\ evt.type = KEYS_REQUEST_EVT
  /\ ret = WICED_BT_SUCCESS
  /\ paired
  /\ evt.out = bonding_info.device_link_keys
  /\ evt.out # ZeroLinkKeys
  /\ data_storage.bonding = NotFound


\* the bytes the table holds for an attribute
AttributeData(attribute) ==
  IF attribute = "cccd" THEN app_hids_report_client_char_config ELSE app_hids_report

ReadResponses(log) == CallsOf(log, "wiced_bt_gatt_server_send_read_handle_rsp")

\* C21: a read for an unknown handle returns INVALID_HANDLE, a read with an
\* offset at or past the attribute's current length returns INVALID_OFFSET,
\* both without a read response; any other read sends one response holding
\* min(len_requested, cur_len - offset) bytes of the attribute starting at
\* offset, none of them past the current length.
C21_ReadWithinCurrentLength ==
  evt.type = "GATT_REQ_READ" =>
    LET attribute == handle2attr(evt.handle)
        offset == evt.arg[1]
        len_requested == evt.arg[2]
    IN IF attribute = "NULL"
       THEN ret = WICED_BT_GATT_INVALID_HANDLE /\ ReadResponses(calls) = {}
       ELSE IF offset >= cur_len[attribute]
       THEN ret = WICED_BT_GATT_INVALID_OFFSET /\ ReadResponses(calls) = {}
       ELSE /\ Cardinality(ReadResponses(calls)) = 1
            /\ \A i \in ReadResponses(calls) :
                 /\ Len(calls[i].data) = MIN(len_requested, cur_len[attribute] - offset)
                 /\ offset + Len(calls[i].data) <= cur_len[attribute]
                 /\ \A k \in 1..Len(calls[i].data) :
                      calls[i].data[k] = AttributeData(attribute)[offset + k]
                 /\ calls[i].ok => ret = WICED_BT_GATT_SUCCESS

\* a read at offset 1 of the subscription attribute, cut to the one byte left
C21_Witness ==
  /\ evt.type = "GATT_REQ_READ"
  /\ evt.handle = HDLD_HIDS_REPORT_CLIENT_CHAR_CONFIG
  /\ evt.arg = <<1, MaxValLen>>
  /\ cur_len.cccd = 2
  /\ app_hids_report_client_char_config = <<1, 0>>
  /\ \E i \in ReadResponses(calls) : calls[i].data = <<0>>
  /\ ret = WICED_BT_GATT_SUCCESS

\* C22: a write longer than the attribute's declared maximum returns
\* INVALID_ATTR_LEN and leaves the attribute's bytes, its current length, the
\* subscription flag and the store as they were; and the current length of
\* every attribute is at most its maximum length.
C22_OverlongWriteRejected ==
  [][ /\ \A a \in DOMAIN max_len : cur_len'[a] <= max_len[a]
      /\ ( /\ evt'.type = "GATT_REQ_WRITE"
            /\ handle2attr(evt'.handle) # "NULL"
            /\ Len(evt'.arg) > max_len[handle2attr(evt'.handle)] )
         => /\ ret' = WICED_BT_GATT_INVALID_ATTR_LEN
            /\ calls' = <<>>
            /\ UNCHANGED << app_hids_report_client_char_config, app_hids_report, cur_len,
                            cccd, data_storage >> ]_vars

\* an overlong write to the subscribed attribute was turned down
C22_Witness ==
  /\ evt.type = "GATT_REQ_WRITE"
  /\ evt.handle = HDLD_HIDS_REPORT_CLIENT_CHAR_CONFIG
  /\ Len(evt.arg) > max_len.cccd
  /\ evt.arg[1] = 0
  /\ ret = WICED_BT_GATT_INVALID_ATTR_LEN
  /\ app_hids_report_client_char_config = <<1, 0>>
  /\ cccd = 1


ADVERT_EVT == "BTM_BLE_ADVERT_STATE_CHANGED_EVT"

\* the calls that ask the stack to advertise
AdvertisingRequests(log) ==
  { i \in CallsOf(log, "wiced_bt_start_advertisements") : log[i].arg = <<1>> }

\* C23: a report that advertising is off, handled while connection_id is 0,
\* and every disconnect ask the stack to advertise again; a report handled
\* while connection_id is not 0 asks for nothing.  With a stack that accepts
\* the commands, whenever the stack is up and no link exists advertising is
\* eventually on.
C23_AdvertisingSelfHeals ==
  /\ [][ /\ evt'.type = ADVERT_EVT
            => IF evt'.arg = <<0>> /\ connection_id = 0
               THEN Cardinality(AdvertisingRequests(calls')) = 1
               ELSE calls' = <<>> /\ stack'.advert = FALSE
         /\ (evt'.type = "GATT_CONNECTION_STATUS_EVT" /\ evt'.arg[1] = 0)
            => (connection_id' = 0 /\ Cardinality(AdvertisingRequests(calls')) = 1) ]_vars
  /\ (stack.state = "enabled" /\ ~stack.link) ~> stack.advert

\* advertising ended by itself with no link, and the report of it restarted it
C23_Witness ==
  /\ evt.type = ADVERT_EVT
  /\ evt.arg = <<0>>
  /\ ~stack.link
  /\ connection_id = 0
  /\ AdvertisingRequests(calls) # {}
  /\ stack.advert


\* the steps startup_task takes before it starts the stack, in their order
StepsBeforeStack ==
  << "ifx_protocol_activate", "nbt_configure", "nbt_select_nbt_application", "nbt_write_file",
     "xTimerStart", "data_storage_initialize" >>

StackStarted(log) == CallsOf(log, "wiced_bt_stack_init") # {}

\* C24: startup_task calls wiced_bt_stack_init only after the channel was
\* activated, the tag configured, the skeleton written, the time keeper
\* started and the store initialised, each with success and in that order;
\* when one of its steps fails the stack is not started and the I2C device,
\* the protocol and the tag abstraction are released.
C24_StackStartsAfterPreparation ==
  evt.type = "startup_task" =>
    /\ StackStarted(calls)
         => /\ Len(calls) > Len(StepsBeforeStack)
            /\ \A k \in DOMAIN StepsBeforeStack :
                 calls[k].op = StepsBeforeStack[k] /\ calls[k].ok
            /\ calls[Len(StepsBeforeStack) + 1].op = "wiced_bt_stack_init"
    /\ (\E i \in DOMAIN calls : ~calls[i].ok)
         => /\ stack.state = "off"
            /\ pc = "startup_failed"
            /\ \A i \in CallsOf(calls, "wiced_bt_stack_init") : ~calls[i].ok
            /\ SubSeq(calls, Len(calls) - Len(Cleanup) + 1, Len(calls)) = Cleanup

\* C25: nbt_configure_ble_connection_handover reports success only when the
\* tag was configured, the application selected again and the whole skeleton
\* written at offset 0; so when startup_task goes on to start the stack, none
\* of the three steps has failed and the tag holds the skeleton.
C25_ConfigureSucceedsOnlyWithSkeleton ==
  (evt.type = "startup_task" /\ StackStarted(calls))
    => /\ \A i \in DOMAIN calls :
            calls[i].op \in { "nbt_configure", "nbt_select_nbt_application", "nbt_write_file" }
              => calls[i].ok
       /\ \E i \in CallsOf(calls, "nbt_write_file") :
            calls[i].arg[1] = 0 /\ calls[i].data = SKELETON
       /\ ndef_file = SKELETON


ENCRYPTION_EVT == "BTM_ENCRYPTION_STATUS_EVT"

\* C26: when BTM_ENCRYPTION_STATUS_EVT is handled for the address of the
\* bonded peer, the live subscription attribute takes the value of cccd; for
\* another address, or with no bond, the attribute keeps its bytes; cccd and
\* the bonding record are never changed.
C26_EncryptionReappliesSubscription ==
  [][ evt'.type = ENCRYPTION_EVT
      => /\ UNCHANGED << cccd, bonding_info >>
         /\ IF bonding_info.bonded /\ evt'.arg[1] = bonding_info.device_link_keys[1]
            THEN cccd_of_attribute(app_hids_report_client_char_config') = cccd
            ELSE UNCHANGED app_hids_report_client_char_config ]_vars


SEND_RESUME == "ble_gatt_send_hid_update_resume"

\* the handler issued this one notification and no other call
OneNotification(log, conn, report) ==
  /\ Len(log) = 1
  /\ log[1].op = "wiced_bt_gatt_server_send_notification"
  /\ log[1].arg = << conn >>
  /\ log[1].data = report

\* C27: called while the subscription attribute has notifications on,
\* ble_gatt_send_hid_update sets the report to 0x01 and sends it, then waits;
\* nothing else sends a notification during the wait; after the wait it sets
\* the report to 0x00, sends it and returns, so the report is 0x00 when the
\* function returns.
C27_SendIsTogglePulse ==
  [][ /\ ( /\ evt'.type = SEND_CMD
            /\ btn_pc = "idle"
            /\ notification_enabled(app_hids_report_client_char_config) )
         => /\ OneNotification(calls', connection_id, <<1>>)
            /\ app_hids_report' = <<1>>
            /\ btn_pc' = "vTaskDelay"
      /\ (btn_pc = "vTaskDelay" /\ Notifications(calls') # {}) => evt'.type = SEND_RESUME
      /\ evt'.type = SEND_RESUME
         => /\ btn_pc = "vTaskDelay"
            /\ OneNotification(calls', connection_id, <<0>>)
            /\ app_hids_report' = <<0>>
            /\ btn_pc' = "idle" ]_vars

\* the second notification of a pulse went out to the connected peer
C27_Witness ==
  /\ evt.type = SEND_RESUME
  /\ OneNotification(calls, 1, <<0>>)
  /\ calls[1].ok
  /\ connection_id = 1
  /\ notification_enabled(app_hids_report_client_char_config)
  /\ app_hids_report = <<0>>
  /\ btn_pc = "idle"


KEYS_UPDATE_EVT == "BTM_PAIRED_DEVICE_LINK_KEYS_UPDATE_EVT"

\* C28: BTM_PAIRED_DEVICE_LINK_KEYS_UPDATE_EVT puts the link keys of the
\* event into the bonding record in RAM and does nothing else: it issues no
\* call, and the bonded flag, cccd, the handover message, the tag and the store
\* stay as they were.  The stored bonding record changes only when
\* BTM_PAIRING_COMPLETE_EVT is handled or ble_clear_bonding_info is called on
\* a bonded device.
C28_KeysUpdateTouchesRamKeysOnly ==
  [][ /\ evt'.type = KEYS_UPDATE_EVT
         => /\ bonding_info'.device_link_keys = evt'.arg
            /\ bonding_info'.bonded = bonding_info.bonded
            /\ calls' = <<>>
            /\ UNCHANGED << cccd, CONNECTION_HANDOVER_MESSAGE, ndef_file, data_storage,
                            app_hids_report_client_char_config >>
      /\ data_storage'.bonding # data_storage.bonding
         => \/ evt'.type = "BTM_PAIRING_COMPLETE_EVT"
            \/ evt'.type = RESET_CMD /\ bonding_info.bonded ]_vars

\* new link keys are in RAM while the store still holds the earlier bond
C28_Witness ==
  /\ evt.type = KEYS_UPDATE_EVT
  /\ bonding_info.bonded
  /\ bonding_info.device_link_keys = evt.arg
  /\ data_storage.bonding # NotFound
  /\ data_storage.bonding # BondingBlob(bonding_info)
  /\ calls = <<>>


IDENTITY_REQUEST_EVT == "BTM_LOCAL_IDENTITY_KEYS_REQUEST_EVT"

IDENTITY_UPDATE_EVT == "BTM_LOCAL_IDENTITY_KEYS_UPDATE_EVT"

WritesOf(log, key) == { i \in CallsOf(log, "mtb_kvstore_write") : log[i].key = key }

\* C29: BTM_LOCAL_IDENTITY_KEYS_REQUEST_EVT returns an error when the store
\* has no "identity_keys" entry or one of its reads fails, and succeeds only
\* after both its reads of "identity_keys" succeeded;
\* BTM_LOCAL_IDENTITY_KEYS_UPDATE_EVT returns an error when its write of
\* "identity_keys" fails, and succeeds only after that write succeeded.
C29_IdentityKeysFollowStore ==
  /\ evt.type = IDENTITY_REQUEST_EVT
     => /\ data_storage.identity_keys = NotFound => ret = WICED_BT_ERROR
        /\ (\E i \in ReadsOf(calls, "identity_keys") : ~calls[i].ok) => ret = WICED_BT_ERROR
        /\ ret = WICED_BT_SUCCESS
           => /\ Cardinality(ReadsOf(calls, "identity_keys")) = 2
              /\ \A i \in ReadsOf(calls, "identity_keys") : calls[i].ok
              /\ local_identity_keys = data_storage.identity_keys
        /\ ret \in {WICED_BT_SUCCESS, WICED_BT_ERROR}
  /\ evt.type = IDENTITY_UPDATE_EVT
     => /\ Cardinality(WritesOf(calls, "identity_keys")) = 1
        /\ (\E i \in WritesOf(calls, "identity_keys") : ~calls[i].ok) => ret = WICED_BT_ERROR
        /\ ret = WICED_BT_SUCCESS
           => /\ \A i \in WritesOf(calls, "identity_keys") : calls[i].ok
              /\ data_storage.identity_keys = evt.arg
        /\ ret \in {WICED_BT_SUCCESS, WICED_BT_ERROR}

\* the write of the identity keys failed and the handler returned the error
C29_Witness ==
  /\ evt.type = IDENTITY_UPDATE_EVT
  /\ \E i \in WritesOf(calls, "identity_keys") : ~calls[i].ok
  /\ ret = WICED_BT_ERROR
  /\ data_storage.identity_keys # evt.arg


CONNECTION_EVT == "GATT_CONNECTION_STATUS_EVT"

\* C30: connection_id is 0 whenever the stack holds no link.  A connection
\* status event that reports a link sets it to the id of that link, one that
\* reports the end of the link sets it to 0, and no other event or command
\* changes it (a restart starts the program again with its initial value 0).
C30_ConnectionIdFollowsLink ==
  /\ [](~stack.link => connection_id = 0)
  /\ [][ /\ evt'.type = CONNECTION_EVT
            => connection_id' = IF evt'.arg[1] = 1 THEN evt'.arg[2] ELSE 0
         /\ connection_id' # connection_id
            => \/ evt'.type = CONNECTION_EVT
               \/ evt'.type = "main" /\ connection_id' = 0 ]_vars

\* the link ended and connection_id went back to 0
C30_Witness ==
  /\ evt.type = CONNECTION_EVT
  /\ evt.arg[1] = 0
  /\ evt.arg[2] \in ConnectionIds
  /\ ~stack.link
  /\ stack.state = "enabled"
  /\ connection_id = 0


ClearedRecord == [device_link_keys |-> ZeroLinkKeys, bonded |-> FALSE]

\* the calls of the log that ask for advertising in the given mode
AdvertisementCalls(log, mode) ==
  { i \in CallsOf(log, "wiced_bt_start_advertisements") : log[i].arg = <<mode>> }

\* C31: when ble_clear_bonding_info runs with a bonded record and its stop
\* of advertising succeeds, then on return the record in RAM is unbonded
\* with zeroed link keys and one write of that cleared record to the store
\* was attempted, whether or not the delete of the bonded device and the
\* store write succeeded; the resolution list clear and the advertising
\* restart are both requested, after the write.
C31_ResetClearsBondBestEffort ==
  [][ ( /\ evt'.type = RESET_CMD
        /\ bonding_info.bonded
        /\ calls'[1].ok )
      => /\ bonding_info' = ClearedRecord
         /\ Len(calls') = 5
         /\ calls'[2].op = "wiced_bt_dev_delete_bonded_device"
         /\ calls'[2].arg = << bonding_info.device_link_keys[1] >>
         /\ WritesOf(calls', "bonding") = {3}
         /\ calls'[3].data = BondingBlob(ClearedRecord)
         /\ calls'[3].ok => data_storage'.bonding = BondingBlob(ClearedRecord)
         /\ ~calls'[3].ok => data_storage'.bonding = data_storage.bonding
         /\ calls'[4].op = "wiced_bt_ble_address_resolution_list_clear_and_disable"
         /\ AdvertisementCalls(calls', 1) = {5} ]_vars

\* a reset of a bonded device whose delete and store write both failed: the
\* record in RAM is cleared, the store still holds the bond
C31_Witness ==
  /\ evt.type = RESET_CMD
  /\ Len(calls) = 5
  /\ calls[1].ok /\ ~calls[2].ok /\ ~calls[3].ok
  /\ bonding_info = ClearedRecord
  /\ BondPersisted(data_storage)


\* C32: when the stop of advertising at the start of ble_clear_bonding_info
\* fails, the function returns after that one call: the bonding record in
\* RAM and in the store, the subscription flag, the stack's resolution list
\* and its advertising state are what they were, and no delete of the bonded
\* device is requested.
C32_FailedStopLeavesBond ==
  [][ ( /\ evt'.type = RESET_CMD
        /\ ~calls'[1].ok )
      => /\ Len(calls') = 1
         /\ calls'[1].op = "wiced_bt_start_advertisements"
         /\ calls'[1].arg = <<0>>
         /\ UNCHANGED << bonding_info, data_storage, stack, cccd,
                         app_hids_report_client_char_config, connection_id,
                         CONNECTION_HANDOVER_MESSAGE, ndef_file >> ]_vars

\* a reset of a bonded, advertising device whose stop of advertising failed
C32_Witness ==
  /\ evt.type = RESET_CMD
  /\ Len(calls) = 1
  /\ ~calls[1].ok
  /\ bonding_info.bonded
  /\ BondPersisted(data_storage)
  /\ stack.state = "enabled"
  /\ stack.advert
  /\ stack.resolution_db # {}


\* the derivations of a confirmation value from public key x under key: one
\* for every value the unwritten last byte of the MAC message may hold
Derivations(key, x) ==
  { mbedtls_cipher_cmac(key, cmac_message(OobData(x, key), u)) : u \in IndeterminateByte }

\* C33: after BTM_SMP_SC_LOCAL_OOB_DATA_NOTIFICATION_EVT returned success,
\* the confirmation field of the handover message is a derivation, from the
\* public key of the event, keyed with the 16 bytes this handling wrote into
\* the random-value field (they are the key given to
\* mbedtls_cipher_cmac_starts), and the tag holds the same two fields.
C33_ConfirmationKeyedByRandomField ==
  (evt.type = OOB_EVT /\ ret = WICED_BT_SUCCESS)
    => /\ Len(calls) = 6
       /\ calls[1].op = "nbt_write_file"
       /\ calls[1].arg = << CONNECTION_HANDOVER_MESSAGE_RANDOM_OFFSET, SC_VALUE_LEN >>
       /\ calls[1].data = RandomField(CONNECTION_HANDOVER_MESSAGE)
       /\ calls[3].op = "mbedtls_cipher_cmac_starts"
       /\ calls[3].data = RandomField(CONNECTION_HANDOVER_MESSAGE)
       /\ ConfirmationField(CONNECTION_HANDOVER_MESSAGE)
            \in Derivations(RandomField(CONNECTION_HANDOVER_MESSAGE), EventKeyX(evt))
       /\ calls[6].data = ConfirmationField(CONNECTION_HANDOVER_MESSAGE)
       /\ RandomField(ndef_file) = RandomField(CONNECTION_HANDOVER_MESSAGE)
       /\ ConfirmationField(ndef_file) = ConfirmationField(CONNECTION_HANDOVER_MESSAGE)

\* a successful handling of an event whose randomizer is not the key used
C33_Witness ==
  /\ evt.type = OOB_EVT
  /\ ret = WICED_BT_SUCCESS
  /\ EventRandomizer(evt) # RandomField(CONNECTION_HANDOVER_MESSAGE)
  /\ ConfirmationField(ndef_file)
       \in Derivations(RandomField(ndef_file), EventKeyX(evt))


\* the tag writes of the log
TagWrites(log) == CallsOf(log, "nbt_write_file")

\* the bytes of the file (counted from 1) a failed tag write of the log was to set
FailedRange(log) ==
  { k \in 1..MESSAGE_LEN :
      \E i \in TagWrites(log) :
        ~log[i].ok /\ log[i].arg[1] < k /\ k <= log[i].arg[1] + log[i].arg[2] }

\* the bytes in which the tag differs from the message in RAM
TagDiffers(file, message) == { k \in 1..MESSAGE_LEN : file[k] # message[k] }

\* C34: a startup whose write of the skeleton succeeded leaves the tag equal
\* to the handover message in RAM; every handler that starts with the two
\* equal and whose tag writes all succeed leaves them equal; and when they
\* were equal and differ on return, they differ only in bytes a failed tag
\* write of that handler was to set, the message in RAM holding the new bytes.
C34_TagFollowsMessage ==
  [][ /\ ( /\ evt'.type = "startup_task"
            /\ \E i \in TagWrites(calls') : calls'[i].ok /\ calls'[i].arg = << 0, MESSAGE_LEN >> )
         => ndef_file' = CONNECTION_HANDOVER_MESSAGE'
      /\ ( /\ ndef_file = CONNECTION_HANDOVER_MESSAGE
            /\ evt'.type \notin {"main", "startup_task"} )
         => /\ TagDiffers(ndef_file', CONNECTION_HANDOVER_MESSAGE') \subseteq FailedRange(calls')
            /\ \A i \in TagWrites(calls') :
                 calls'[i].data = Field(CONNECTION_HANDOVER_MESSAGE', calls'[i].arg[1], calls'[i].arg[2])
            /\ \A k \in 1..MESSAGE_LEN :
                 CONNECTION_HANDOVER_MESSAGE'[k] # CONNECTION_HANDOVER_MESSAGE[k]
                   => \E i \in TagWrites(calls') :
                        calls'[i].arg[1] < k /\ k <= calls'[i].arg[1] + calls'[i].arg[2] ]_vars

\* address, random value and confirmation value were all written and the tag
\* holds the message byte for byte
C34_Witness ==
  /\ evt.type = OOB_EVT
  /\ ret = WICED_BT_SUCCESS
  /\ Cardinality(TagWrites(calls)) = 2
  /\ MacField(CONNECTION_HANDOVER_MESSAGE) # MacField(SKELETON)
  /\ ConfirmationField(CONNECTION_HANDOVER_MESSAGE) # ConfirmationField(SKELETON)
  /\ ndef_file = CONNECTION_HANDOVER_MESSAGE


\* C35: a pass of btn_task dispatches ble_clear_bonding_info only when it
\* reads the button released after a hold (periods from the press to the
\* release of the button) of more than LONG_PRESS_MS, however the edges of
\* the button and the passes of the task interleave.
C35_ResetOnlyAfterLongHold ==
  [][ (evt'.type = "btn_task" /\ btn_irq_sleeper = 1 /\ RESET_CMD \in Dispatched(calls'))
      => /\ button = CYBSP_BTN_OFF
         /\ last_hold > LONG_PRESS_MS \div PERIOD_LENGTH_MS ]_vars


\* C36: the second notification of a pulse of ble_gatt_send_hid_update goes
\* to the connection its first notification went to, whatever connection
\* status events were handled during the delay between the two.
C36_PulseKeepsItsLink ==
  [][ evt'.type = SEND_RESUME
      => \A i \in Notifications(calls') : calls'[i].arg = << pulse_conn >> ]_vars


\* C38: the bonding record becomes bonded, and a bonded record reaches the
\* store, only through a pairing that completed successfully: a
\* BTM_PAIRING_COMPLETE_EVT that reports a failure (a status other than 0),
\* handled while the record in RAM and the stored one are unbonded, leaves
\* both unbonded.
C38_FailedPairingLeavesUnbonded ==
  [][ ( /\ evt'.type = "BTM_PAIRING_COMPLETE_EVT"
        /\ evt'.arg[2] # 0
        /\ ~bonding_info.bonded
        /\ ~BondPersisted(data_storage) )
      => /\ ~bonding_info'.bonded
         /\ ~BondPersisted(data_storage') ]_vars


\* C37: BTM_ENCRYPTION_STATUS_EVT for the bonded peer never sets the
\* subscription attribute from a subscription flag that was written while
\* the device was bonded to another peer (one that ble_clear_bonding_info
\* has forgotten since).
C37_SubscriptionDiesWithBond ==
  [][ ( /\ evt'.type = ENCRYPTION_EVT
        /\ bonding_info.bonded
        /\ evt'.arg[1] = bonding_info.device_link_keys[1]
        /\ cccd % 256 # 0 )
      => ~(subscriber.forgotten /\ subscriber.peer # evt'.arg[1]) ]_vars


\* C39: for every press tick and release tick, with d the number of periods
\* between them, a pass of btn_task that reads the button released dispatches
\* ble_clear_bonding_info exactly when d * PERIOD_LENGTH_MS is more than
\* LONG_PRESS_MS as mathematical integers (d more than LONG_PRESS_MS /
\* PERIOD_LENGTH_MS periods): the 32-bit product never wraps so as to read a
\* long hold as a short press.
C39_ProductNeverWraps ==
  [][ ( /\ evt'.type = "btn_task" /\ evt'.arg = <<0>>
        /\ elapsed_periods' = elapsed_periods /\ btn_pc = "idle"
        /\ press_start > 0 )
        => ( RESET_CMD \in Dispatched(calls')
               <=> press_duration(elapsed_periods, press_start)
                     > LONG_PRESS_MS \div PERIOD_LENGTH_MS ) ]_vars

====
